---- MODULE Spec2Model ----
(***************************************************************************)
(* The rules engine of the card game (src/src/game.py), its legality       *)
(* helpers (src/src/utilities.py) and the events it queues                 *)
(* (src/src/messaging.py), as a state machine.  One action per blocking    *)
(* round trip of the engine: construction is Init, then the deal, one      *)
(* SET_TABLE_CARDS request per step, one get_valid_play per step.          *)
(***************************************************************************)
EXTENDS Integers, Sequences, FiniteSets, TLC

(***************************************************************************)
(* Program constants (src/src/constants.py).                               *)
(***************************************************************************)
TABLE_STACKS == 3
HAND_CARDS == 3
MIN_PLAYERS == 2
MAX_PLAYERS == 4

(***************************************************************************)
(* Bounds of the model.  The deck is built of the first NumValues values   *)
(* of DeckValueChoice in four suits (the program's deck has all 13);       *)
(* the shuffle is one of NumShuffles permutations; a player offers one of  *)
(* NumTableChoices valid table-card selections; in a game at most          *)
(* MaxFreePlays accepted plays are chosen freely among PlayResponses, the  *)
(* other PLAY requests get the response of the greedy policy               *)
(* (src/src/players/greedy_player.py), or any response the engine rejects. *)
(* In a game of random players the picks are followed once RandomFrom      *)
(* cards are eliminated (and while the deck holds cards).  The search      *)
(* runs its rollouts once SimulateFrom cards are eliminated; a rollout is  *)
(* cut off after MaxMessages requests (the program counts 600 messages);   *)
(* the search is given at most MaxOptions options, each tested with        *)
(* Iterations rollouts (the program runs 5 or 30).  The card codes that    *)
(* are deserialized have at most MaxCodeLen characters.                    *)
(***************************************************************************)
NumValues == 5
NumShuffles == 2
NumTableChoices == 1
MaxFreePlays == 1
RandomFrom == 7
SimulateFrom == 11
MaxMessages == 6
MaxOptions == 4
MaxCodeLen == 3
Iterations == 2

(***************************************************************************)
(* Optional values: None, or Some(x).                                      *)
(***************************************************************************)
None == <<>>
Some(x) == <<x>>
Get(o) == o[1]

Range(s) == {s[i] : i \in DOMAIN s}
Last(s) == s[Len(s)]
Front(s) == SubSeq(s, 1, Len(s) - 1)
LastN(s, n) == SubSeq(s, Len(s) - n + 1, Len(s))
Min(a, b) == IF a <= b THEN a ELSE b

RECURSIVE Concat(_)
Concat(ss) == IF ss = <<>> THEN <<>> ELSE Head(ss) \o Concat(Tail(ss))

(***************************************************************************)
(* Cards.  VALUES and SUITS are pydealer's, in its order; a card's poker   *)
(* rank (pydealer's default ranks, used by Card >= and Stack.sort) is the  *)
(* position of its value in VALUES and of its suit in SUITS.               *)
(***************************************************************************)
VALUES == <<"2", "3", "4", "5", "6", "7", "8", "9", "10", "Jack", "Queen", "King", "Ace">>
SUITS == <<"Diamonds", "Clubs", "Hearts", "Spades">>

ValueIndex == [v \in Range(VALUES) |-> CHOOSE i \in DOMAIN VALUES : VALUES[i] = v]
SuitIndex == [s \in Range(SUITS) |-> CHOOSE i \in DOMAIN SUITS : SUITS[i] = s]

Card(value, suit) == [value |-> value, suit |-> suit]

DeckValueChoice == <<"10", "2", "Jack", "Queen", "King", "Ace", "9", "8", "7", "6", "5", "4", "3">>
DeckValues == {DeckValueChoice[i] : i \in 1 .. Min(NumValues, Len(DeckValueChoice))}

\* Deck(): one card per value and suit, value-major, the last card on top.
DeckOf(deck_values) ==
    LET values == SelectSeq(VALUES, LAMBDA v : v \in deck_values)
    IN  [i \in 1 .. Len(values) * Len(SUITS) |->
            Card(values[((i - 1) \div Len(SUITS)) + 1], SUITS[((i - 1) % Len(SUITS)) + 1])]

\* The deck of the games played in the model.
Deck == DeckOf(DeckValues)

\* The deck of the program, of all 13 values.
FullDeck == DeckOf(Range(VALUES))

DECK_LEN == Len(Deck)

ENCODE_SUIT == ("Diamonds" :> "D") @@ ("Clubs" :> "C") @@ ("Hearts" :> "H") @@ ("Spades" :> "S")
DECODE_SUIT == ("D" :> "Diamonds") @@ ("C" :> "Clubs") @@ ("H" :> "Hearts") @@ ("S" :> "Spades")
ENCODE_VALUE ==
    ("2" :> "2") @@ ("3" :> "3") @@ ("4" :> "4") @@ ("5" :> "5") @@ ("6" :> "6") @@
    ("7" :> "7") @@ ("8" :> "8") @@ ("9" :> "9") @@ ("10" :> "T") @@ ("Jack" :> "J") @@
    ("Queen" :> "Q") @@ ("King" :> "K") @@ ("Ace" :> "A")
DECODE_VALUE ==
    ("2" :> "2") @@ ("3" :> "3") @@ ("4" :> "4") @@ ("5" :> "5") @@ ("6" :> "6") @@
    ("7" :> "7") @@ ("8" :> "8") @@ ("9" :> "9") @@ ("T" :> "10") @@ ("J" :> "Jack") @@
    ("Q" :> "Queen") @@ ("K" :> "King") @@ ("A" :> "Ace")

(***************************************************************************)
(* Stack operations of pydealer as the engine uses them.                   *)
(***************************************************************************)
CardKey(card) == ValueIndex[card.value] * (Len(SUITS) + 1) + SuitIndex[card.suit]

\* Stack.sort(): ascending by value, then by suit.
RECURSIVE SortCards(_)
SortCards(stack) ==
    IF \A i \in 1 .. Len(stack) - 1 : CardKey(stack[i]) <= CardKey(stack[i + 1]) THEN stack
    ELSE LET rest == SortCards(Front(stack))
             card == Last(stack)
             k == Cardinality({i \in DOMAIN rest : CardKey(rest[i]) <= CardKey(card)})
         IN  SubSeq(rest, 1, k) \o <<card>> \o SubSeq(rest, k + 1, Len(rest))

\* Stack.get(card.name): takes every card of that name out of the stack.
StackGet(stack, card) == SelectSeq(stack, LAMBDA c : c # card)

\* Card >= Card: by value, and by suit among equal values.
CardGE(a, b) ==
    \/ ValueIndex[a.value] > ValueIndex[b.value]
    \/ /\ ValueIndex[a.value] >= ValueIndex[b.value]
       /\ SuitIndex[a.suit] >= SuitIndex[b.suit]

(***************************************************************************)
(* src/src/utilities.py                                                    *)
(***************************************************************************)
\* Raises on an empty stack; every caller passes a non-empty one.
are_all_cards_same_value(stack) ==
    /\ Len(stack) > 0
    /\ Cardinality({stack[i].value : i \in DOMAIN stack}) = 1

does_play_trump_last_play(cards_played, last_play) ==
    IF last_play = None THEN TRUE
    ELSE IF Len(cards_played) < Len(Get(last_play)) THEN FALSE
    ELSE CardGE(cards_played[1], Get(last_play)[1])

card_set_from_stack(stack) == {<<stack[i].value, stack[i].suit>> : i \in DOMAIN stack}

serialize_card(card) == <<ENCODE_SUIT[card.suit], ENCODE_VALUE[card.value]>>

serialize_cards(cards) == [i \in DOMAIN cards |-> serialize_card(cards[i])]

\* A variant that reads the first two characters of a longer code.
deserialize_card_of_prefix(card_code) ==
    IF Len(card_code) < 2 THEN None
    ELSE IF card_code[1] \notin DOMAIN DECODE_SUIT THEN None
    ELSE IF card_code[2] \notin DOMAIN DECODE_VALUE THEN None
    ELSE Some(Card(DECODE_VALUE[card_code[2]], DECODE_SUIT[card_code[1]]))

\* A card code is a sequence of characters; the result is None for a code
\* that raises CardEncodeDecodeException.
deserialize_card(card_code) ==
    IF Len(card_code) # 2 THEN None
    ELSE IF card_code[1] \notin DOMAIN DECODE_SUIT THEN None
    ELSE IF card_code[2] \notin DOMAIN DECODE_VALUE THEN None
    ELSE Some(Card(DECODE_VALUE[card_code[2]], DECODE_SUIT[card_code[1]]))

\* encoded_cards is the sequence of the codes between the commas.
deserialize_cards(encoded_cards) ==
    IF \E i \in DOMAIN encoded_cards : deserialize_card(encoded_cards[i]) = None
    THEN None
    ELSE Some([i \in DOMAIN encoded_cards |-> Get(deserialize_card(encoded_cards[i]))])

build_face_up_table_stack(table_stacks) ==
    LET tops == [i \in DOMAIN table_stacks |-> table_stacks[i].top_card]
    IN  Concat([i \in DOMAIN tops |-> tops[i]])

\* The cards of a stack at the positions in S, in the stack's order.
RECURSIVE CardsAt(_, _)
CardsAt(cards, S) ==
    IF S = {} THEN <<>>
    ELSE LET i == CHOOSE j \in S : \A k \in S : j <= k
         IN  <<cards[i]>> \o CardsAt(cards, S \ {i})

value_order == [v \in Range(VALUES) |-> ValueIndex[v] - 1]

\* PlaysOfValue with the order of the value compared by > in place of >=.
PlaysOfValue_above(value, cards, last_play_order, last_play_count, discard_pile) ==
    IF value \in {"2", "10"}
    THEN {serialize_cards(<<cards[i]>>) : i \in DOMAIN cards}
    ELSE IF /\ Len(cards) < 4
            /\ Len(discard_pile) >= 4 - Len(cards)
            /\ are_all_cards_same_value(cards \o LastN(discard_pile, 4 - Len(cards)))
    THEN {serialize_cards(SortCards(cards))}
    ELSE IF value_order[value] > last_play_order /\ Len(cards) >= last_play_count
    THEN {serialize_cards(SortCards(CardsAt(cards, S))) :
            S \in {T \in SUBSET DOMAIN cards :
                     Cardinality(T) \in last_play_count .. Len(cards)}}
    ELSE {}

\* The plays get_available_plays_from_stack adds for one value, whose cards
\* in the sorted stack are `cards`.
PlaysOfValue(value, cards, last_play_order, last_play_count, discard_pile) ==
    IF value \in {"2", "10"}
    THEN {serialize_cards(<<cards[i]>>) : i \in DOMAIN cards}
    ELSE IF /\ Len(cards) < 4
            /\ Len(discard_pile) >= 4 - Len(cards)
            /\ are_all_cards_same_value(cards \o LastN(discard_pile, 4 - Len(cards)))
    THEN {serialize_cards(SortCards(cards))}
    ELSE IF value_order[value] >= last_play_order /\ Len(cards) >= last_play_count
    THEN {serialize_cards(SortCards(CardsAt(cards, S))) :
            S \in {T \in SUBSET DOMAIN cards :
                     Cardinality(T) \in last_play_count .. Len(cards)}}
    ELSE {}

get_available_plays_from_stack(stack, last_play, discard_pile) ==
    LET sorted == SortCards(stack)
        last_play_order ==
            IF last_play = None THEN value_order["2"] ELSE value_order[Get(last_play)[1].value]
        last_play_count == IF last_play = None THEN 1 ELSE Len(Get(last_play))
    IN  UNION {PlaysOfValue(value, SelectSeq(sorted, LAMBDA c : c.value = value),
                            last_play_order, last_play_count, discard_pile) :
                 value \in {sorted[i].value : i \in DOMAIN sorted}}

get_available_plays_from_hand(hand, last_play, discard_pile) ==
    IF Len(hand.hand_stack) > 0
    THEN get_available_plays_from_stack(hand.hand_stack, last_play, discard_pile)
    ELSE IF Len(hand.table_stacks) > 0
    THEN get_available_plays_from_stack(
             build_face_up_table_stack(hand.table_stacks), last_play, discard_pile)
    ELSE {}

\* cards_played.sort() sorts the caller's stack too: every caller goes on
\* with SortCards(cards_played).
is_play_available(hand, last_play, cards_played, discard_pile) ==
    serialize_cards(SortCards(cards_played))
        \in get_available_plays_from_hand(hand, last_play, discard_pile)

count_player_cards(hand) ==
    Len(hand.hand_stack)
    + Len(hand.table_stacks)
    + Cardinality({i \in DOMAIN hand.table_stacks : hand.table_stacks[i].top_card # None})

does_hand_have_known_cards(hand) ==
    Len(hand.hand_stack) > 0 \/ Len(build_face_up_table_stack(hand.table_stacks)) > 0

(***************************************************************************)
(* src/src/messaging.py.  An Update has the fields of game_types.Update;   *)
(* every function below returns the entries it appends to the players'     *)
(* queues, in the order it appends them.                                   *)
(***************************************************************************)
Update(update_type, player_number, cards, message) ==
    [update_type |-> update_type, player_number |-> player_number, cards |-> cards,
     number_of_players |-> None, message |-> message]

add_update_to_player_queue(player_number, update) ==
    <<[recipient |-> player_number, update |-> update]>>

add_update_to_players_queues(n, update, exclude_player) ==
    Concat([i \in 1 .. n |->
              IF Some(i - 1) # exclude_player
              THEN add_update_to_player_queue(i - 1, update) ELSE <<>>])

game_initiated(n) ==
    add_update_to_players_queues(n, Update("GAME_INITIATED", None, None, None), None)

deck_depleted(n) ==
    add_update_to_players_queues(n, Update("DECK_DEPLETED", None, None, None), None)

\* The Update carries no player_number; the queues are then sent out.
player_wins(n, player_number) ==
    add_update_to_players_queues(n, Update("PLAYER_WINS", None, None, None), None)

you_drew_card(player_number, card) ==
    add_update_to_player_queue(
        player_number, Update("YOU_DREW_CARD", None, Some(serialize_cards(<<card>>)), None))

player_drew_card(n, player_number) ==
    add_update_to_players_queues(
        n, Update("PLAYER_DREW_CARD", Some(player_number), None, None), Some(player_number))

card_draw(n, player_number, card) ==
    you_drew_card(player_number, card) \o player_drew_card(n, player_number)

you_picked_up_discard_pile(player_number, cards) ==
    add_update_to_player_queue(
        player_number,
        Update("YOU_PICKED_UP_DISCARD_PILE", None, Some(serialize_cards(cards)), None))

player_picked_up_discard_pile(n, player_number) ==
    add_update_to_players_queues(
        n, Update("PLAYER_PICKED_UP_DISCARD_PILE", Some(player_number), None, None),
        Some(player_number))

discard_pile_pickup(n, player_number, cards) ==
    you_picked_up_discard_pile(player_number, cards)
        \o player_picked_up_discard_pile(n, player_number)

\* play_from_hand, play_from_table, play_from_facedown_success,
\* play_from_facedown_failure and set_table_cards differ in the update type
\* only.
play_update(n, update_type, player_number, cards) ==
    add_update_to_players_queues(
        n, Update(update_type, Some(player_number), Some(serialize_cards(cards)), None),
        Some(player_number))

invalid_action(player_number, message) ==
    add_update_to_player_queue(
        player_number, Update("INVALID_ACTION", None, None, Some(message)))

(***************************************************************************)
(* Two methods that the engine calls and messaging.py does not hold, after *)
(* the specification: a BURN_DISCARD_PILE event without fields, and a play *)
(* event with the actor and the cards; both go to every player.            *)
(***************************************************************************)
burn_discard_pile(n) ==
    add_update_to_players_queues(n, Update("BURN_DISCARD_PILE", None, None, None), None)

play_from_faceup_failure(n, player_number, cards) ==
    add_update_to_players_queues(
        n, Update("PLAY_FROM_FACEUP_FAILURE", Some(player_number),
                  Some(serialize_cards(cards)), None),
        None)

(***************************************************************************)
(* src/src/game.py.  `self` is the Game object as a record; update_queue   *)
(* holds the entries the step under way has appended to the queues.  A     *)
(* hand_stack is held in sorted order, the order get_available_plays_from_ *)
(* stack gives it before every validation: the engine never reads the      *)
(* order of a hand.                                                        *)
(***************************************************************************)
Hand == [table_stacks |-> <<>>, hand_stack |-> <<>>]

TableStack(bottom_card) == [bottom_card |-> bottom_card, top_card |-> None]

Emit(self, entries) == [self EXCEPT !.update_queue = @ \o entries]

PlayerNumbers(self) == 0 .. self.number_of_players - 1

\* total_cards of assert_conservation_of_cards.
total_cards(self) ==
    LET count[p \in -1 .. self.number_of_players - 1] ==
            IF p = -1 THEN 0 ELSE count[p - 1] + count_player_cards(self.player_hands[p])
    IN  Len(self.deck) + Len(self.discard_pile) + Len(self.eliminated_cards)
            + count[self.number_of_players - 1]

assert_conservation_of_cards(self) == total_cards(self) = DECK_LEN

update_turn(self, count) ==
    [self EXCEPT !.player_turn = (@ + count) % self.number_of_players]

\* deal_card telling of the depletion when it leaves one card or none.
deal_card_depleted_at_one(self, player_number) ==
    IF Len(self.deck) > 0
    THEN LET card == Last(self.deck)
             dealt == [self EXCEPT !.deck = Front(@),
                                   !.player_hands[player_number].hand_stack =
                                       SortCards(@ \o <<card>>)]
             drawn == Emit(dealt, card_draw(self.number_of_players, player_number, card))
         IN  IF Len(drawn.deck) <= 1
             THEN Emit(drawn, deck_depleted(self.number_of_players))
             ELSE drawn
    ELSE self

deal_card(self, player_number) ==
    IF Len(self.deck) > 0
    THEN LET card == Last(self.deck)
             dealt == [self EXCEPT !.deck = Front(@),
                                   !.player_hands[player_number].hand_stack =
                                       SortCards(@ \o <<card>>)]
             drawn == Emit(dealt, card_draw(self.number_of_players, player_number, card))
         IN  IF Len(drawn.deck) = 0
             THEN Emit(drawn, deck_depleted(self.number_of_players))
             ELSE drawn
    ELSE self

\* deal_table_card that reads the top card of the deck and leaves it there.
deal_table_card_deck_kept(self, player_number) ==
    [self EXCEPT !.player_hands[player_number].table_stacks =
                     Append(@, TableStack(Last(self.deck)))]

deal_table_card(self, player_number) ==
    [self EXCEPT !.deck = Front(@),
                 !.player_hands[player_number].table_stacks =
                     Append(@, TableStack(Last(self.deck)))]

\* The two nested loops of deal_table_cards and deal_hand_cards, as one
\* count i of the cards still to deal.
RECURSIVE deal_table_cards(_, _)
deal_table_cards(self, i) ==
    IF i = 0 THEN self
    ELSE LET done == TABLE_STACKS * self.number_of_players - i
         IN  deal_table_cards(deal_table_card(self, done % self.number_of_players), i - 1)

RECURSIVE deal_hand_cards(_, _)
deal_hand_cards(self, i) ==
    IF i = 0 THEN self
    ELSE LET done == (HAND_CARDS + TABLE_STACKS) * self.number_of_players - i
         IN  deal_hand_cards(deal_card(self, done % self.number_of_players), i - 1)

initial_deal(self) ==
    deal_hand_cards(
        deal_table_cards(self, TABLE_STACKS * self.number_of_players),
        (HAND_CARDS + TABLE_STACKS) * self.number_of_players)

\* The result has raised = TRUE for CardsNotAvailableException.
remove_cards_from_hand_stack(self, player_number, cards) ==
    LET hand_stack == self.player_hands[player_number].hand_stack
        RECURSIVE get(_, _)
        get(stack, i) == IF i > Len(cards) THEN stack ELSE get(StackGet(stack, cards[i]), i + 1)
    IN  IF card_set_from_stack(cards) \ card_set_from_stack(hand_stack) # {}
        THEN [raised |-> TRUE, self |-> self]
        ELSE [raised |-> FALSE,
              self |-> [self EXCEPT !.player_hands[player_number].hand_stack =
                                        get(hand_stack, 1)]]

\* The loop over the cards: each takes the first table stack whose top card
\* it is; count_cards_removed counts the cards that found one.
RECURSIVE RemoveFaceUp(_, _, _)
RemoveFaceUp(table_stacks, cards, i) ==
    IF i > Len(cards) THEN [table_stacks |-> table_stacks, count_cards_removed |-> 0]
    ELSE LET found == {j \in DOMAIN table_stacks : table_stacks[j].top_card = Some(cards[i])}
             first == CHOOSE j \in found : \A k \in found : j <= k
             rest == RemoveFaceUp(
                         IF found = {} THEN table_stacks
                         ELSE [table_stacks EXCEPT ![first].top_card = None],
                         cards, i + 1)
         IN  [rest EXCEPT !.count_cards_removed = @ + (IF found = {} THEN 0 ELSE 1)]

remove_cards_from_face_up(self, player_number, cards) ==
    LET table_stacks == self.player_hands[player_number].table_stacks
        face_up_cards == build_face_up_table_stack(table_stacks)
        removed == RemoveFaceUp(table_stacks, cards, 1)
    IN  IF card_set_from_stack(cards) \ card_set_from_stack(face_up_cards) # {}
        THEN [raised |-> TRUE, self |-> self]
        ELSE [raised |-> removed.count_cards_removed # Len(cards),
              self |-> [self EXCEPT !.player_hands[player_number].table_stacks =
                                        removed.table_stacks]]

\* check_victory without the test of the table stacks.
check_victory_hand_only(self, player_number) ==
    Len(self.player_hands[player_number].hand_stack) = 0

check_victory(self, player_number) ==
    /\ Len(self.player_hands[player_number].table_stacks) = 0
    /\ Len(self.player_hands[player_number].hand_stack) = 0

\* check_for_burn without the rule of the 10.
check_for_burn_four_only(self) ==
    /\ Len(self.discard_pile) >= 4
    /\ Get(self.last_play)[1].value # "2"
    /\ are_all_cards_same_value(LastN(self.discard_pile, 4))

check_for_burn(self) ==
    \/ Get(self.last_play)[1].value = "10"
    \/ /\ Len(self.discard_pile) >= 4
       /\ Get(self.last_play)[1].value # "2"
       /\ are_all_cards_same_value(LastN(self.discard_pile, 4))

\* pickup_discard_pile without the reset of last_play.
pickup_discard_pile_keeps_last_play(self, player_number) ==
    LET cards == self.discard_pile
        picked == [self EXCEPT !.discard_pile = <<>>,
                               !.player_hands[player_number].hand_stack = SortCards(@ \o cards)]
    IN  Emit(update_turn(picked, 1),
             discard_pile_pickup(self.number_of_players, player_number, cards))

pickup_discard_pile(self, player_number) ==
    LET cards == self.discard_pile
        picked == [self EXCEPT !.discard_pile = <<>>,
                               !.player_hands[player_number].hand_stack = SortCards(@ \o cards),
                               !.last_play = None]
    IN  Emit(update_turn(picked, 1),
             discard_pile_pickup(self.number_of_players, player_number, cards))

\* TurnCount with the play compared to itself, as if last_play had not been
\* stored before the play replaced it.
TurnCount_current_play(stored_last_play, last_play) ==
    IF Get(last_play)[1].value # "2" THEN 2 ELSE 1

\* The count update_turn gets after a play that did not burn.
TurnCount(stored_last_play, last_play) ==
    IF /\ stored_last_play # None
       /\ Len(Get(stored_last_play)) > 0
       /\ Get(stored_last_play)[1].value = Get(last_play)[1].value
       /\ Get(last_play)[1].value # "2"
    THEN 2 ELSE 1

\* play_cards with the turn passed on after a burn.
play_cards_burn_passes_turn(self, player_number, cards) ==
    LET stored_last_play == self.last_play
        played == [self EXCEPT !.last_play = Some(cards), !.discard_pile = @ \o cards]
        checked ==
            IF check_victory(played, player_number)
            THEN Emit([played EXCEPT !.win = Some(player_number)],
                      player_wins(self.number_of_players, played.player_turn))
            ELSE played
    IN  IF check_for_burn(checked)
        THEN update_turn(
                 Emit([checked EXCEPT !.discard_pile = <<>>,
                                      !.last_play = None,
                                      !.eliminated_cards = @ \o checked.discard_pile],
                      burn_discard_pile(self.number_of_players)),
                 1)
        ELSE update_turn(deal_card(checked, player_number),
                         TurnCount(stored_last_play, checked.last_play))

\* play_cards with last_play left as it is after a burn.
play_cards_burn_keeps_last_play(self, player_number, cards) ==
    LET stored_last_play == self.last_play
        played == [self EXCEPT !.last_play = Some(cards), !.discard_pile = @ \o cards]
        checked ==
            IF check_victory(played, player_number)
            THEN Emit([played EXCEPT !.win = Some(player_number)],
                      player_wins(self.number_of_players, played.player_turn))
            ELSE played
    IN  IF check_for_burn(checked)
        THEN Emit([checked EXCEPT !.discard_pile = <<>>,
                                  !.eliminated_cards = @ \o checked.discard_pile],
                  burn_discard_pile(self.number_of_players))
        ELSE update_turn(deal_card(checked, player_number),
                         TurnCount(stored_last_play, checked.last_play))

play_cards(self, player_number, cards) ==
    LET stored_last_play == self.last_play
        played == [self EXCEPT !.last_play = Some(cards), !.discard_pile = @ \o cards]
        checked ==
            IF check_victory(played, player_number)
            THEN Emit([played EXCEPT !.win = Some(player_number)],
                      player_wins(self.number_of_players, played.player_turn))
            ELSE played
    IN  IF check_for_burn(checked)
        THEN Emit([checked EXCEPT !.discard_pile = <<>>,
                                  !.last_play = None,
                                  !.eliminated_cards = @ \o checked.discard_pile],
                  burn_discard_pile(self.number_of_players))
        ELSE update_turn(deal_card(checked, player_number),
                         TurnCount(stored_last_play, checked.last_play))

handle_play_from_hand(self, player_number, cards_played) ==
    LET removed == remove_cards_from_hand_stack(self, player_number, cards_played)
    IN  IF removed.raised
        THEN [raised |-> "CardsNotAvailableException", self |-> removed.self]
        ELSE [raised |-> "",
              self |-> Emit(play_cards(removed.self, player_number, cards_played),
                            play_update(self.number_of_players, "PLAY_FROM_HAND",
                                        player_number, cards_played))]

\* handle_face_up_play without the except clause around the removal of a
\* play that is not available.
handle_face_up_play_raising(self, player_number, cards_played) ==
    LET removed == remove_cards_from_face_up(self, player_number, cards_played)
    IN  IF is_play_available(self.player_hands[player_number], self.last_play,
                             cards_played, self.discard_pile)
        THEN IF removed.raised
             THEN [raised |-> "CardsNotAvailableException", self |-> removed.self]
             ELSE [raised |-> "",
                   self |-> Emit(play_cards(removed.self, player_number, cards_played),
                                 play_update(self.number_of_players, "PLAY_FROM_TABLE",
                                             player_number, cards_played))]
        ELSE IF removed.raised
        THEN [raised |-> "CardsNotAvailableException", self |-> removed.self]
        ELSE [raised |-> "",
              self |-> pickup_discard_pile(
                  Emit([removed.self EXCEPT
                            !.player_hands[player_number].hand_stack =
                                SortCards(@ \o cards_played)],
                       play_from_faceup_failure(self.number_of_players, player_number,
                                                cards_played)),
                  player_number)]

\* handle_face_up_play that leaves the cards of a play that is not available
\* on the table.
handle_face_up_play_cards_stay(self, player_number, cards_played) ==
    LET removed == remove_cards_from_face_up(self, player_number, cards_played)
    IN  IF is_play_available(self.player_hands[player_number], self.last_play,
                             cards_played, self.discard_pile)
        THEN IF removed.raised
             THEN [raised |-> "CardsNotAvailableException", self |-> removed.self]
             ELSE [raised |-> "",
                   self |-> Emit(play_cards(removed.self, player_number, cards_played),
                                 play_update(self.number_of_players, "PLAY_FROM_TABLE",
                                             player_number, cards_played))]
        ELSE [raised |-> "",
              self |-> pickup_discard_pile(
                  IF removed.raised
                  THEN removed.self
                  ELSE Emit(self,
                            play_from_faceup_failure(self.number_of_players, player_number,
                                                     cards_played)),
                  player_number)]

handle_face_up_play(self, player_number, cards_played) ==
    LET removed == remove_cards_from_face_up(self, player_number, cards_played)
    IN  IF is_play_available(self.player_hands[player_number], self.last_play,
                             cards_played, self.discard_pile)
        THEN IF removed.raised
             THEN [raised |-> "CardsNotAvailableException", self |-> removed.self]
             ELSE [raised |-> "",
                   self |-> Emit(play_cards(removed.self, player_number, cards_played),
                                 play_update(self.number_of_players, "PLAY_FROM_TABLE",
                                             player_number, cards_played))]
        ELSE [raised |-> "",
              self |-> pickup_discard_pile(
                  IF removed.raised
                  THEN removed.self
                  ELSE Emit([removed.self EXCEPT
                                 !.player_hands[player_number].hand_stack =
                                     SortCards(@ \o cards_played)],
                            play_from_faceup_failure(self.number_of_players, player_number,
                                                     cards_played)),
                  player_number)]

\* handle_face_down_play without the revealed card added to the hand when
\* it does not trump.
handle_face_down_play_card_not_kept(self, player_number) ==
    LET table_stack == Last(self.player_hands[player_number].table_stacks)
        card == table_stack.bottom_card
        card_stack == <<card>>
        popped == [self EXCEPT !.player_hands[player_number].table_stacks = Front(@)]
    IN  IF does_play_trump_last_play(card_stack, self.last_play)
        THEN Emit(play_cards(popped, player_number, card_stack),
                  play_update(self.number_of_players, "PLAY_FROM_FACEDOWN_SUCCESS",
                              player_number, card_stack))
        ELSE Emit(pickup_discard_pile(popped, player_number),
                  play_update(self.number_of_players, "PLAY_FROM_FACEDOWN_FAILURE",
                              player_number, card_stack))

handle_face_down_play(self, player_number) ==
    LET table_stack == Last(self.player_hands[player_number].table_stacks)
        card == table_stack.bottom_card
        card_stack == <<card>>
        popped == [self EXCEPT !.player_hands[player_number].table_stacks = Front(@)]
    IN  IF does_play_trump_last_play(card_stack, self.last_play)
        THEN Emit(play_cards(popped, player_number, card_stack),
                  play_update(self.number_of_players, "PLAY_FROM_FACEDOWN_SUCCESS",
                              player_number, card_stack))
        ELSE Emit(pickup_discard_pile(
                      [popped EXCEPT !.player_hands[player_number].hand_stack =
                                         SortCards(@ \o card_stack)],
                      player_number),
                  play_update(self.number_of_players, "PLAY_FROM_FACEDOWN_FAILURE",
                              player_number, card_stack))

(***************************************************************************)
(* A Response has an action and optional cards (the codes between the      *)
(* commas of the string; Some(<<>>) is the empty string).  A Play has an    *)
(* action and optional cards (a stack).                                    *)
(***************************************************************************)
Response(action, cards) == [action |-> action, cards |-> cards]

Play(action, cards) == [action |-> action, cards |-> cards]

\* raised names the exception, "" for none.
convert_response_to_play(response) ==
    IF response.action = "PLAY_KNOWN_CARDS"
    THEN IF response.cards = None \/ response.cards = Some(<<>>)
         THEN [raised |-> "AssertionError", play |-> Play(response.action, None)]
         ELSE IF deserialize_cards(Get(response.cards)) = None
         THEN [raised |-> "CardEncodeDecodeException", play |-> Play(response.action, None)]
         ELSE [raised |-> "",
               play |-> Play(response.action, deserialize_cards(Get(response.cards)))]
    ELSE [raised |-> "", play |-> Play(response.action, None)]

\* validate_play without the assertions about the cards of a play.
validate_play_cards_unchecked(self, play, player_number) ==
    /\ play.action \in {"PICK_UP_DISCARD_PILE", "PLAY_KNOWN_CARDS"}
    /\ IF play.action = "PICK_UP_DISCARD_PILE"
       THEN Len(self.discard_pile) > 0
       ELSE /\ play.cards # None
            /\ Len(Get(play.cards)) > 0

\* validate_play that asks for an available play from the table as well.
validate_play_table_too(self, play, player_number) ==
    /\ play.action \in {"PICK_UP_DISCARD_PILE", "PLAY_KNOWN_CARDS"}
    /\ IF play.action = "PICK_UP_DISCARD_PILE"
       THEN Len(self.discard_pile) > 0
       ELSE /\ play.cards # None
            /\ Len(Get(play.cards)) > 0
            /\ are_all_cards_same_value(Get(play.cards))
            /\ is_play_available(self.player_hands[player_number], self.last_play,
                                 Get(play.cards), self.discard_pile)

\* TRUE when no assertion of validate_play fails.
validate_play(self, play, player_number) ==
    /\ play.action \in {"PICK_UP_DISCARD_PILE", "PLAY_KNOWN_CARDS"}
    /\ IF play.action = "PICK_UP_DISCARD_PILE"
       THEN Len(self.discard_pile) > 0
       ELSE /\ play.cards # None
            /\ Len(Get(play.cards)) > 0
            /\ are_all_cards_same_value(Get(play.cards))
            /\ Len(self.player_hands[player_number].hand_stack) > 0 =>
                   is_play_available(self.player_hands[player_number], self.last_play,
                                     Get(play.cards), self.discard_pile)

update_game_state_for_play(self, play, player_number) ==
    IF play.action = "PICK_UP_DISCARD_PILE"
    THEN [raised |-> "", self |-> pickup_discard_pile(self, player_number)]
    ELSE IF play.action = "PLAY_FACE_DOWN"
    THEN [raised |-> "", self |-> handle_face_down_play(self, player_number)]
    ELSE IF Len(self.player_hands[player_number].hand_stack) > 0
    THEN handle_play_from_hand(self, player_number, SortCards(Get(play.cards)))
    ELSE handle_face_up_play(self, player_number, SortCards(Get(play.cards)))

\* The request Messaging.request sends over the connection.
request(player_number, request_type) ==
    [recipient |-> player_number, request_type |-> request_type]

\* receive_and_validate_play that takes the action of a PLAY_FACE_DOWN
\* response as it comes, without validate_play.
receive_and_validate_play_face_down_as_replied(self, player_number, response) ==
    IF does_hand_have_known_cards(self.player_hands[player_number])
    THEN LET converted == convert_response_to_play(response)
             requests == <<request(player_number, "PLAY")>>
         IN  IF converted.raised # ""
             THEN [raised |-> converted.raised, play |-> converted.play,
                   requests |-> requests]
             ELSE IF /\ converted.play.action # "PLAY_FACE_DOWN"
                     /\ ~validate_play(self, converted.play, player_number)
             THEN [raised |-> "AssertionError", play |-> converted.play,
                   requests |-> requests]
             ELSE [raised |-> "", play |-> converted.play, requests |-> requests]
    ELSE [raised |-> "", play |-> Play("PLAY_FACE_DOWN", None), requests |-> <<>>]

\* receive_and_validate_play with the player's response to the PLAY request,
\* which is sent, and the response read, only when the hand has known
\* cards; requests holds the requests sent.
receive_and_validate_play(self, player_number, response) ==
    IF does_hand_have_known_cards(self.player_hands[player_number])
    THEN LET converted == convert_response_to_play(response)
             requests == <<request(player_number, "PLAY")>>
         IN  IF converted.raised # ""
             THEN [raised |-> converted.raised, play |-> converted.play,
                   requests |-> requests]
             ELSE IF ~validate_play(self, converted.play, player_number)
             THEN [raised |-> "AssertionError", play |-> converted.play,
                   requests |-> requests]
             ELSE [raised |-> "", play |-> converted.play, requests |-> requests]
    ELSE [raised |-> "", play |-> Play("PLAY_FACE_DOWN", None), requests |-> <<>>]

\* valid is the value get_valid_play returns.
get_valid_play(self, player_number, response) ==
    LET received == receive_and_validate_play(self, player_number, response)
        updated == update_game_state_for_play(self, received.play, player_number)
        raised == IF received.raised # "" THEN received.raised ELSE updated.raised
        after == IF received.raised # "" THEN self ELSE updated.self
    IN  IF raised = ""
        THEN [valid |-> TRUE, requests |-> received.requests, self |-> after]
        ELSE [valid |-> FALSE, requests |-> received.requests,
              self |-> Emit(after, invalid_action(
                  player_number,
                  IF raised = "CardsNotAvailableException"
                  THEN "Cards not available for play, try again"
                  ELSE "Illegal play, try again"))]

\* receive_table_card_selection without the assertion that the cards are
\* unique.
receive_table_card_selection_not_unique(self, player_number, response) ==
    LET cards == Get(deserialize_cards(Get(response.cards)))
        removed == remove_cards_from_hand_stack(self, player_number, cards)
        place == [i \in DOMAIN removed.self.player_hands[player_number].table_stacks |->
                    IF i <= Len(cards)
                    THEN [removed.self.player_hands[player_number].table_stacks[i]
                              EXCEPT !.top_card = Some(cards[i])]
                    ELSE removed.self.player_hands[player_number].table_stacks[i]]
    IN  IF response.action # "SET_TABLE_CARDS" THEN [raised |-> "AssertionError", self |-> self]
        ELSE IF response.cards = None \/ response.cards = Some(<<>>)
        THEN [raised |-> "AssertionError", self |-> self]
        ELSE IF deserialize_cards(Get(response.cards)) = None
        THEN [raised |-> "CardEncodeDecodeException", self |-> self]
        ELSE IF Len(cards) # TABLE_STACKS THEN [raised |-> "AssertionError", self |-> self]
        ELSE IF removed.raised THEN [raised |-> "CardsNotAvailableException", self |-> self]
        ELSE [raised |-> "",
              self |-> [Emit(removed.self,
                             play_update(self.number_of_players, "SET_TABLE_CARDS",
                                         player_number, cards))
                          EXCEPT !.player_hands[player_number].table_stacks = place]]

\* receive_table_card_selection: raised names the exception, "" for none.
receive_table_card_selection(self, player_number, response) ==
    LET cards == Get(deserialize_cards(Get(response.cards)))
        removed == remove_cards_from_hand_stack(self, player_number, cards)
        place == [i \in DOMAIN removed.self.player_hands[player_number].table_stacks |->
                    IF i <= Len(cards)
                    THEN [removed.self.player_hands[player_number].table_stacks[i]
                              EXCEPT !.top_card = Some(cards[i])]
                    ELSE removed.self.player_hands[player_number].table_stacks[i]]
    IN  IF response.action # "SET_TABLE_CARDS" THEN [raised |-> "AssertionError", self |-> self]
        ELSE IF response.cards = None \/ response.cards = Some(<<>>)
        THEN [raised |-> "AssertionError", self |-> self]
        ELSE IF deserialize_cards(Get(response.cards)) = None
        THEN [raised |-> "CardEncodeDecodeException", self |-> self]
        ELSE IF Cardinality(Range(cards)) # Len(cards)
        THEN [raised |-> "AssertionError", self |-> self]
        ELSE IF Len(cards) # TABLE_STACKS THEN [raised |-> "AssertionError", self |-> self]
        ELSE IF removed.raised THEN [raised |-> "CardsNotAvailableException", self |-> self]
        ELSE [raised |-> "",
              self |-> [Emit(removed.self,
                             play_update(self.number_of_players, "SET_TABLE_CARDS",
                                         player_number, cards))
                          EXCEPT !.player_hands[player_number].table_stacks = place]]

handle_table_card_selection(self, player_number, response) ==
    LET received == receive_table_card_selection(self, player_number, response)
    IN  IF received.raised = ""
        THEN [valid |-> TRUE, self |-> received.self]
        ELSE [valid |-> FALSE,
              self |-> Emit(received.self, invalid_action(
                  player_number,
                  CASE received.raised = "AssertionError" ->
                           "Card selection not valid, cards must be {TABLE_STACKS} unique cards"
                    [] received.raised = "CardsNotAvailableException" ->
                           "Those cards are not in hand to be placed, try again"
                    [] OTHER -> "Error parsing cards, try again"))]

(***************************************************************************)
(* The state: the fields of the Game object, the position of the engine    *)
(* (pc), the loop variable of set_table_cards, and the number of accepted  *)
(* plays so far that were not the greedy policy's.  `call` is apart from   *)
(* the game: the arguments and the result of a helper of utilities.py      *)
(* applied on its own, None while the engine runs.  `messaging` is the     *)
(* Messaging object (the queue of each player and what was sent) and       *)
(* `player_states` the PlayerState of each player, None where a            *)
(* specification follows the engine alone.  `earlier` is a history         *)
(* variable: a state of the game that a game under the random policy       *)
(* passed, None where none is remembered.                                  *)
(***************************************************************************)
VARIABLES number_of_players, deck, discard_pile, eliminated_cards, player_hands,
          last_play, player_turn, win, update_queue, pc, table_player, free_plays,
          call, messaging, player_states, earlier

vars == <<number_of_players, deck, discard_pile, eliminated_cards, player_hands,
          last_play, player_turn, win, update_queue, pc, table_player, free_plays,
          call, messaging, player_states, earlier>>

\* The Game object at the start of a step.
Game ==
    [number_of_players |-> number_of_players, deck |-> deck, discard_pile |-> discard_pile,
     eliminated_cards |-> eliminated_cards, player_hands |-> player_hands,
     last_play |-> last_play, player_turn |-> player_turn, win |-> win,
     update_queue |-> <<>>]

\* The Game object at the end of a step.
GameNext(self) ==
    /\ number_of_players' = self.number_of_players
    /\ deck' = self.deck
    /\ discard_pile' = self.discard_pile
    /\ eliminated_cards' = self.eliminated_cards
    /\ player_hands' = self.player_hands
    /\ last_play' = self.last_play
    /\ player_turn' = self.player_turn
    /\ win' = self.win
    /\ update_queue' = self.update_queue

\* The numbers of players the deck of the model can deal to.
PlayerCounts ==
    {n \in MIN_PLAYERS .. MAX_PLAYERS : n * (HAND_CARDS + 2 * TABLE_STACKS) <= DECK_LEN}

\* Game.__init__
GameInit ==
    /\ number_of_players \in PlayerCounts
    /\ deck = Deck
    /\ discard_pile = <<>>
    /\ eliminated_cards = <<>>
    /\ player_hands = [p \in 0 .. number_of_players - 1 |-> Hand]
    /\ last_play = None
    /\ player_turn = 0
    /\ win = None
    /\ update_queue = game_initiated(number_of_players)
    /\ pc = "constructed"
    /\ table_player = 0
    /\ free_plays = 0

\* The Messaging object and the players' trackers are followed under
\* ProtocolSpec only, an earlier state of the game under RandomSpec only.
NoProtocol == messaging = None /\ player_states = None /\ earlier = None

\* A step of the engine on its own.
GameOnly == UNCHANGED <<call, messaging, player_states, earlier>>

Init == GameInit /\ call = None /\ NoProtocol

(***************************************************************************)
(* deck.shuffle(): one of the permutations of the deck.  The first leaves   *)
(* the deck as built, as the unit tests do; each further one riffles the   *)
(* one before it four times.                                               *)
(***************************************************************************)
Riffle(stack) ==
    LET half == Len(stack) \div 2
    IN  [i \in DOMAIN stack |->
            IF i > 2 * half THEN stack[i]
            ELSE IF i % 2 = 1 THEN stack[(i + 1) \div 2] ELSE stack[half + (i \div 2)]]

RECURSIVE Shuffle(_, _)
Shuffle(stack, k) ==
    IF k <= 1 THEN stack ELSE Riffle(Riffle(Riffle(Riffle(Shuffle(stack, k - 1)))))

\* setup, up to the first SET_TABLE_CARDS request.
Setup ==
    /\ pc = "constructed"
    /\ \E k \in 1 .. NumShuffles :
           GameNext(initial_deal([Game EXCEPT !.deck = Shuffle(deck, k)]))
    /\ pc' = "set_table_cards"
    /\ UNCHANGED <<table_player, free_plays>>

(***************************************************************************)
(* The responses a player may give.                                        *)
(***************************************************************************)
Reverse(s) == [i \in DOMAIN s |-> s[Len(s) + 1 - i]]

MalformedCodes == {<<"X", "2">>, <<"H", "1">>, <<"H">>}

\* The known cards of a player: hand and face-up table cards.
KnownCards(hand) == SortCards(hand.hand_stack \o build_face_up_table_stack(hand.table_stacks))

\* The lowest card of each value that the player does not know to hold.
ForeignCards(hand) ==
    LET known == Range(KnownCards(hand))
        foreign == SelectSeq(Deck, LAMBDA c : c \notin known)
    IN  {foreign[i] : i \in {j \in DOMAIN foreign :
                                \A k \in 1 .. j - 1 : foreign[k].value # foreign[j].value}}

\* Card lists a player may name in a PLAY_KNOWN_CARDS response: every
\* selection of known cards of one value in sorted order, the pairs also in
\* reverse order; two cards of two values; a card named twice; cards not
\* held, alone and with a card held; malformed codes.
PlayCardLists(hand) ==
    LET known == KnownCards(hand)
        OfValue(v) == SelectSeq(known, LAMBDA c : c.value = v)
        same == UNION {{CardsAt(OfValue(v), S) : S \in SUBSET DOMAIN OfValue(v) \ {{}}} :
                         v \in {known[i].value : i \in DOMAIN known}}
        first == {i \in DOMAIN known : \A j \in 1 .. i - 1 : known[j].value # known[i].value}
        mixed == {<<known[i], known[j]>> : i, j \in {k \in first : k <= 2}} \ {<<known[1], known[1]>>}
        twice == {<<c, c>> : c \in {known[i] : i \in first}}
        foreign == {<<c>> : c \in ForeignCards(hand)}
                   \cup {pair \in {<<known[1], c>> : c \in ForeignCards(hand)} :
                            pair[1].value = pair[2].value}
    IN  {serialize_cards(cards) :
            cards \in same \cup {Reverse(c) : c \in {d \in same : Len(d) = 2}}
                       \cup mixed \cup twice \cup foreign}
        \cup {<<code>> : code \in MalformedCodes}

PlayResponses(hand) ==
    {Response("PLAY_KNOWN_CARDS", Some(codes)) : codes \in PlayCardLists(hand)}
    \cup {Response("PLAY_KNOWN_CARDS", None), Response("PLAY_KNOWN_CARDS", Some(<<>>)),
          Response("PICK_UP_DISCARD_PILE", None), Response("PLAY_FACE_DOWN", None),
          Response("SET_TABLE_CARDS", None)}

\* The valid selections a player offers: three cards next to each other in
\* the sorted hand, from the high end down.
TableCardLists(hand) ==
    LET h == hand.hand_stack
        valid == {SubSeq(h, Len(h) - j - 1, Len(h) - j + 1) :
                     j \in 1 .. Min(NumTableChoices, Len(h) - 2)}
    IN  {serialize_cards(cards) : cards \in valid \cup {Reverse(c) : c \in valid}}
        \cup (IF Len(h) = 0 THEN {}
              ELSE {serialize_cards(cards) :
                      cards \in {<<h[1]>>, <<h[1], h[1], h[2]>>, SubSeq(h, 1, Min(4, Len(h)))}
                                \cup {<<h[1], h[2], c>> : c \in ForeignCards(hand)}})
        \cup {<<code>> : code \in MalformedCodes}

TableResponses(hand) ==
    {Response("SET_TABLE_CARDS", Some(codes)) : codes \in TableCardLists(hand)}
    \cup {Response("SET_TABLE_CARDS", None), Response("SET_TABLE_CARDS", Some(<<>>)),
          Response("PLAY_KNOWN_CARDS", Some(serialize_cards(SubSeq(hand.hand_stack, 1, 3))))}

(***************************************************************************)
(* src/src/players/greedy_player.py: the response of a greedy player whose *)
(* tracker holds the player's hand and face-up cards, the last play and    *)
(* the discard pile as the game has them.                                  *)
(***************************************************************************)
PLAY_RANKS ==
    ("T" :> 12) @@ ("2" :> 11) @@ ("A" :> 10) @@ ("K" :> 9) @@ ("Q" :> 8) @@ ("J" :> 7) @@
    ("9" :> 6) @@ ("8" :> 5) @@ ("7" :> 4) @@ ("6" :> 3) @@ ("5" :> 2) @@ ("4" :> 1) @@
    ("3" :> 0)

\* A variant with the key (PLAY_RANKS[c[1]], len(c)): the shorter play first.
GreedyKeyLE_shorter_first(a, b) ==
    \/ PLAY_RANKS[a[1][2]] < PLAY_RANKS[b[1][2]]
    \/ /\ PLAY_RANKS[a[1][2]] = PLAY_RANKS[b[1][2]]
       /\ 3 * Len(a) - 1 <= 3 * Len(b) - 1

\* The sort key of a play c: (PLAY_RANKS[c[1]], -len(c)), where c[1] is the
\* value character of the first card and len(c) the length of the string.
GreedyKeyLE(a, b) ==
    \/ PLAY_RANKS[a[1][2]] < PLAY_RANKS[b[1][2]]
    \/ /\ PLAY_RANKS[a[1][2]] = PLAY_RANKS[b[1][2]]
       /\ 0 - (3 * Len(a) - 1) <= 0 - (3 * Len(b) - 1)

\* The plays that may come first in the sorted list.
greedy_select_play(available_plays) ==
    {play \in available_plays : \A other \in available_plays : GreedyKeyLE(play, other)}

\* Player.get_available_plays
get_available_plays(hand, last_play_, discard_pile_) ==
    get_available_plays_from_stack(
        IF Len(hand.hand_stack) > 0 THEN hand.hand_stack
        ELSE build_face_up_table_stack(hand.table_stacks),
        last_play_, discard_pile_)

\* GreedyPlayer.play and ComputerPlayer.handle_request; of the plays with
\* the least key the one with the lowest cards stands for all.
GreedyResponse(self, player_number) ==
    LET available_plays ==
            get_available_plays(self.player_hands[player_number], self.last_play,
                                self.discard_pile)
        chosen == greedy_select_play(available_plays)
    IN  IF available_plays = {} THEN Response("PICK_UP_DISCARD_PILE", None)
        ELSE Response("PLAY_KNOWN_CARDS",
                      Some(CHOOSE play \in chosen :
                               \A other \in chosen :
                                   CardKey(Get(deserialize_card(play[1])))
                                       <= CardKey(Get(deserialize_card(other[1])))))

(***************************************************************************)
(* The steps of the engine.                                                *)
(***************************************************************************)
\* One pass of the loop of loop_until_valid_table_cards, and after the last
\* player's valid selection the assertion that ends setup.
SetTableCardsOf(deck_len) ==
    /\ pc = "set_table_cards"
    /\ \E response \in TableResponses(player_hands[table_player]) :
           LET selection == handle_table_card_selection(Game, table_player, response)
               last == selection.valid /\ table_player = number_of_players - 1
           IN  /\ GameNext(selection.self)
               /\ table_player' = IF selection.valid /\ ~last THEN table_player + 1
                                  ELSE table_player
               /\ pc' = IF ~last THEN pc
                        ELSE IF total_cards(selection.self) = deck_len THEN "run"
                        ELSE "aborted"
    /\ UNCHANGED free_plays

SetTableCards == SetTableCardsOf(DECK_LEN)

\* The position of run after get_valid_play returned `play`: the loop of
\* loop_until_valid_play goes on after an invalid play; after a valid one
\* the assertion of run is made and the loop of run ends once win is set.
AfterPlay(play) ==
    /\ GameNext(play.self)
    /\ pc' = IF ~play.valid THEN pc
             ELSE IF ~assert_conservation_of_cards(play.self) THEN "aborted"
             ELSE IF play.self.win # None THEN "done"
             ELSE pc
    /\ UNCHANGED table_player

\* One pass of the loop of loop_until_valid_play in which the player is
\* sent a PLAY request.
GetValidPlay ==
    /\ pc = "run"
    /\ does_hand_have_known_cards(player_hands[player_turn])
    /\ LET greedy == GreedyResponse(Game, player_turn)
       IN  \E response \in PlayResponses(player_hands[player_turn]) :
               LET play == get_valid_play(Game, player_turn, response)
                   is_free == play.valid /\ response # greedy
               IN  /\ is_free => free_plays < MaxFreePlays
                   /\ free_plays' = IF is_free THEN free_plays + 1 ELSE free_plays
                   /\ AfterPlay(play)

\* One pass in which the engine plays the player's face-down card.
PlayFaceDown ==
    /\ pc = "run"
    /\ ~does_hand_have_known_cards(player_hands[player_turn])
    /\ AfterPlay(get_valid_play(Game, player_turn, Response("PLAY_FACE_DOWN", None)))
    /\ UNCHANGED free_plays

Next ==
    \/ Setup /\ GameOnly
    \/ SetTableCards /\ GameOnly
    \/ GetValidPlay /\ GameOnly
    \/ PlayFaceDown /\ GameOnly

Spec == Init /\ [][Next]_vars

(***************************************************************************)
(* setup on its own, with the deck of the program and every number of      *)
(* players: construction, the deal, the SET_TABLE_CARDS requests and the   *)
(* assertion that ends setup.                                              *)
(***************************************************************************)
SetupInit ==
    /\ number_of_players \in MIN_PLAYERS .. MAX_PLAYERS
    /\ deck = FullDeck
    /\ discard_pile = <<>>
    /\ eliminated_cards = <<>>
    /\ player_hands = [p \in 0 .. number_of_players - 1 |-> Hand]
    /\ last_play = None
    /\ player_turn = 0
    /\ win = None
    /\ update_queue = game_initiated(number_of_players)
    /\ pc = "constructed"
    /\ table_player = 0
    /\ free_plays = 0
    /\ call = None
    /\ NoProtocol

SetupTableCards == SetTableCardsOf(Len(FullDeck))

SetupNext ==
    \/ Setup /\ GameOnly
    \/ SetupTableCards /\ GameOnly

SetupSpec == SetupInit /\ [][SetupNext]_vars

(***************************************************************************)
(* The Messaging object over a game (src/src/messaging.py): update_queue   *)
(* is its field, the updates queued for each player and not sent yet; sent *)
(* is what the connection has carried to each player, the payloads of the  *)
(* update messages one after the other; queued is every update ever queued *)
(* for the player.                                                         *)
(***************************************************************************)
\* Messaging.__init__
MessagingInit(n) ==
    [update_queue |-> [p \in 0 .. n - 1 |-> <<>>],
     sent |-> [p \in 0 .. n - 1 |-> <<>>],
     queued |-> [p \in 0 .. n - 1 |-> <<>>]]

\* update_player: the queue of the player goes out as one update message,
\* an empty queue too, and is cleared.
update_player(self, player_number) ==
    [self EXCEPT !.sent[player_number] = @ \o self.update_queue[player_number],
                 !.update_queue[player_number] = <<>>]

\* The loop of player_wins over the players.
RECURSIVE update_players(_, _)
update_players(self, n) ==
    IF n = 0 THEN self ELSE update_player(update_players(self, n - 1), n - 1)

\* The Messaging object after the engine has appended `entries`: each goes
\* to the end of its recipient's queue; player_wins, once it has queued
\* PLAYER_WINS for the last player, sends every player's queue.
RECURSIVE Queued(_, _)
Queued(self, entries) ==
    IF entries = <<>> THEN self
    ELSE LET entry == Head(entries)
             n == Cardinality(DOMAIN self.update_queue)
             added == [self EXCEPT !.update_queue[entry.recipient] = Append(@, entry.update),
                                   !.queued[entry.recipient] = Append(@, entry.update)]
         IN  Queued(IF entry.update.update_type = "PLAYER_WINS" /\ entry.recipient = n - 1
                    THEN update_players(added, n)
                    ELSE added,
                    Tail(entries))

\* The INVALID_ACTION updates queued so far.
InvalidActions(self) ==
    LET count[p \in -1 .. Cardinality(DOMAIN self.queued) - 1] ==
            IF p = -1 THEN 0
            ELSE count[p - 1]
                 + Len(SelectSeq(self.queued[p],
                                 LAMBDA u : u.update_type = "INVALID_ACTION"))
    IN  count[Cardinality(DOMAIN self.queued) - 1]

\* The engine is about to send this player a request: Game.handle_request
\* calls Messaging.request, which sends the request and nothing before it.
RequestDue(p) ==
    \/ pc = "set_table_cards" /\ p = table_player
    \/ pc = "run" /\ p = player_turn /\ does_hand_have_known_cards(player_hands[p])

(***************************************************************************)
(* src/src/player_state.py: the tracker a player keeps of the game.  A     *)
(* tracker is a record of the fields of PlayerState; built is false until  *)
(* build_state has set them, raised is true once update_state has raised.  *)
(***************************************************************************)
\* utilities.py does not hold is_card_in_stack, which player_state.py
\* imports: after the specification, whether the stack holds the card.
is_card_in_stack(card, stack) == \E i \in DOMAIN stack : stack[i] = card

Opponent == [hand_stack |-> <<>>, hand_count_unknown |-> 0, table_stack |-> <<>>,
             table_stacks |-> TABLE_STACKS]

PlayerHand == [hand_stack |-> <<>>, table_stack |-> <<>>, table_stacks |-> TABLE_STACKS]

\* PlayerState.__init__
PlayerState(player_number) ==
    [player_number |-> player_number, built |-> FALSE, raised |-> FALSE,
     number_of_players |-> 0, deck_length |-> 0, last_play |-> None,
     discard_pile |-> <<>>, eliminated_cards |-> <<>>, win |-> None,
     table_cards_set |-> FALSE, opponents |-> <<>>, hand |-> PlayerHand]

build_state(self, n) ==
    [self EXCEPT !.built = TRUE,
                 !.number_of_players = n,
                 !.deck_length = DECK_LEN - (TABLE_STACKS * n),
                 !.last_play = None,
                 !.discard_pile = <<>>,
                 !.eliminated_cards = <<>>,
                 !.win = None,
                 !.table_cards_set = FALSE,
                 !.opponents = [i \in (0 .. n - 1) \ {self.player_number} |-> Opponent],
                 !.hand = PlayerHand]

\* The sum of PlayerState.assert_conservation_of_cards.
belief_total_cards(self) ==
    LET O == DOMAIN self.opponents
        opponent_cards[S \in SUBSET O] ==
            IF S = {} THEN 0
            ELSE LET i == CHOOSE i \in S : TRUE
                     opponent == self.opponents[i]
                 IN  Len(opponent.hand_stack) + Len(opponent.table_stack)
                         + opponent.table_stacks + opponent.hand_count_unknown
                         + opponent_cards[S \ {i}]
    IN  self.deck_length + Len(self.discard_pile) + Len(self.eliminated_cards)
            + Len(self.hand.hand_stack) + Len(self.hand.table_stack)
            + self.hand.table_stacks + opponent_cards[O]

\* PlayerState.update_state and the functions it calls.  The result has
\* raised set when an assertion of update_state fails, the one at its end
\* included, or when the update reads a field the tracker does not have.
update_state(self, update) ==
    LET type == update.update_type
        player_number == update.player_number
        cards == IF update.cards = None THEN None
                 ELSE deserialize_cards(Get(update.cards))
        is_me == player_number = Some(self.player_number)
        is_opponent == player_number # None /\ Get(player_number) \in DOMAIN self.opponents
        Raised(s) == [s EXCEPT !.raised = TRUE]
        \* Stack.get for each card of a stack
        Removed(stack, taken) == SelectSeq(stack, LAMBDA c : ~is_card_in_stack(c, taken))
        Found(stack, wanted) == SelectSeq(wanted, LAMBDA c : is_card_in_stack(c, stack))
        played(s) == [s EXCEPT !.last_play = cards, !.discard_pile = @ \o Get(cards)]
        after ==
            CASE type = "GAME_INITIATED" ->
                   IF update.number_of_players = None THEN Raised(self)
                   ELSE build_state(self, Get(update.number_of_players))
              [] ~self.built -> Raised(self)
              [] type = "DECK_DEPLETED" ->
                   IF self.deck_length = 0 THEN self ELSE Raised(self)
              [] type = "PLAYER_WINS" ->
                   IF player_number = None THEN Raised(self)
                   ELSE [self EXCEPT !.win = IF is_me THEN Some(1) ELSE Some(0)]
              [] type = "YOU_DREW_CARD" ->
                   IF cards = None THEN Raised(self)
                   ELSE [self EXCEPT !.deck_length = @ - 1,
                                     !.hand.hand_stack = @ \o Get(cards)]
              [] type = "PLAYER_DREW_CARD" ->
                   IF ~is_opponent THEN Raised(self)
                   ELSE [self EXCEPT !.deck_length = @ - 1,
                                     !.opponents[Get(player_number)].hand_count_unknown = @ + 1]
              [] type = "YOU_PICKED_UP_DISCARD_PILE" ->
                   IF cards = None THEN Raised(self)
                   ELSE [self EXCEPT !.hand.hand_stack = @ \o Get(cards),
                                     !.discard_pile = <<>>,
                                     !.last_play = None]
              [] type = "PLAYER_PICKED_UP_DISCARD_PILE" ->
                   IF ~is_opponent THEN Raised(self)
                   ELSE [self EXCEPT !.opponents[Get(player_number)].hand_stack =
                                         @ \o self.discard_pile,
                                     !.discard_pile = <<>>,
                                     !.last_play = None]
              [] type = "BURN_DISCARD_PILE" ->
                   [self EXCEPT !.eliminated_cards = @ \o self.discard_pile,
                                !.discard_pile = <<>>,
                                !.last_play = None]
              [] type \in {"PLAY_FROM_HAND", "PLAY_FROM_TABLE", "PLAY_FROM_FACEDOWN_SUCCESS",
                           "PLAY_FROM_FACEDOWN_FAILURE", "PLAY_FROM_FACEUP_FAILURE",
                           "SET_TABLE_CARDS"}
                    /\ (cards = None \/ ~(is_me \/ is_opponent)) -> Raised(self)
              [] type = "PLAY_FROM_HAND" ->
                   IF is_me
                   THEN [played(self) EXCEPT !.hand.hand_stack = Removed(@, Get(cards))]
                   ELSE LET opponent == self.opponents[Get(player_number)]
                            found == Found(opponent.hand_stack, Get(cards))
                        IN  [played(self) EXCEPT
                                !.opponents[Get(player_number)].hand_stack = Removed(@, found),
                                !.opponents[Get(player_number)].hand_count_unknown =
                                    @ - (Len(Get(cards)) - Len(found))]
              [] type = "PLAY_FROM_TABLE" ->
                   IF is_me
                   THEN [played(self) EXCEPT !.hand.table_stack = Removed(@, Get(cards))]
                   ELSE [played(self) EXCEPT
                            !.opponents[Get(player_number)].table_stack = Removed(@, Get(cards))]
              [] type = "PLAY_FROM_FACEDOWN_SUCCESS" ->
                   IF is_me
                   THEN [played(self) EXCEPT !.hand.table_stacks = @ - 1]
                   ELSE [played(self) EXCEPT !.opponents[Get(player_number)].table_stacks = @ - 1]
              [] type = "PLAY_FROM_FACEDOWN_FAILURE" ->
                   IF is_me
                   THEN [self EXCEPT !.hand.hand_stack = @ \o Get(cards),
                                     !.hand.table_stacks = @ - 1]
                   ELSE [self EXCEPT !.opponents[Get(player_number)].hand_stack = @ \o Get(cards),
                                     !.opponents[Get(player_number)].table_stacks = @ - 1]
              [] type = "PLAY_FROM_FACEUP_FAILURE" ->
                   IF is_me
                   THEN [self EXCEPT !.hand.hand_stack = @ \o Get(cards),
                                     !.hand.table_stack = Removed(@, Get(cards))]
                   ELSE [self EXCEPT !.opponents[Get(player_number)].hand_stack = @ \o Get(cards),
                                     !.opponents[Get(player_number)].table_stack =
                                         Removed(@, Get(cards))]
              [] type = "SET_TABLE_CARDS" ->
                   IF is_me
                   THEN [self EXCEPT !.hand.table_stack = @ \o Get(cards),
                                     !.hand.hand_stack = Removed(@, Get(cards)),
                                     !.table_cards_set = TRUE]
                   ELSE [self EXCEPT !.opponents[Get(player_number)].table_stack = @ \o Get(cards),
                                     !.opponents[Get(player_number)].hand_count_unknown =
                                         @ - Len(Get(cards))]
              [] OTHER -> self
    IN  IF after.raised \/ belief_total_cards(after) = DECK_LEN THEN after ELSE Raised(after)

\* The tracker of a player after the updates queued for that player among
\* `entries`, applied in their order.
RECURSIVE Updated(_, _)
Updated(self, entries) ==
    IF entries = <<>> THEN self
    ELSE Updated(IF Head(entries).recipient = self.player_number
                 THEN update_state(self, Head(entries).update)
                 ELSE self,
                 Tail(entries))

\* GreedyPlayer.play with Player.get_available_plays and
\* ComputerPlayer.handle_request: the reply of a greedy player to a PLAY
\* request, made of what the player's tracker holds; None when the tracker
\* has raised, which ends the player.
GreedyPlayer_play(state) ==
    LET available_plays ==
            get_available_plays_from_stack(
                IF Len(state.hand.hand_stack) > 0 THEN state.hand.hand_stack
                ELSE state.hand.table_stack,
                state.last_play, state.discard_pile)
        chosen == greedy_select_play(available_plays)
    IN  IF state.raised THEN None
        ELSE IF available_plays = {} THEN Some(Response("PICK_UP_DISCARD_PILE", None))
        ELSE Some(Response("PLAY_KNOWN_CARDS",
                           Some(CHOOSE play \in chosen :
                                    \A other \in chosen :
                                        CardKey(Get(deserialize_card(play[1])))
                                            <= CardKey(Get(deserialize_card(other[1]))))))

(***************************************************************************)
(* The game with its Messaging object and the players' trackers.  Replies  *)
(* the engine rejects are counted with the plays that are not the greedy   *)
(* policy's: each appends to a queue that is not sent before the game      *)
(* ends.                                                                   *)
(***************************************************************************)
ProtocolInit ==
    /\ GameInit
    /\ call = None
    /\ earlier = None
    /\ messaging = Queued(MessagingInit(number_of_players), update_queue)
    /\ player_states = [p \in 0 .. number_of_players - 1 |->
                            Updated(PlayerState(p), update_queue)]

Protocol ==
    /\ messaging' = Queued(messaging, update_queue')
    /\ free_plays' + InvalidActions(messaging') <= MaxFreePlays
    /\ player_states' = [p \in 0 .. number_of_players - 1 |->
                             Updated(player_states[p], update_queue')]
    /\ UNCHANGED <<call, earlier>>

ProtocolNext ==
    \/ Setup /\ Protocol
    \/ SetTableCards /\ Protocol
    \/ GetValidPlay /\ Protocol
    \/ PlayFaceDown /\ Protocol

ProtocolSpec == ProtocolInit /\ [][ProtocolNext]_vars

(***************************************************************************)
(* src/src/players/random_player.py: a game in which every player is a     *)
(* RandomPlayer whose tracker holds the hand, the last play and the        *)
(* discard pile as the game has them.  The players select the three        *)
(* highest cards of the dealt hand for the table.  A player picks among    *)
(* the options of the random policy while the deck holds cards and once    *)
(* RandomFrom cards are eliminated, and among these the pickup and the     *)
(* greedy player's play are followed; in between the player answers as     *)
(* the greedy player.                                                      *)
(***************************************************************************)
\* A variant of RandomPlayer.play that offers the pickup on every request.
RandomOptions_pickup_always(self, player_number) ==
    {Response("PICK_UP_DISCARD_PILE", None)}
    \cup {Response("PLAY_KNOWN_CARDS", Some(play)) :
            play \in get_available_plays(self.player_hands[player_number], self.last_play,
                                         self.discard_pile)}

\* RandomPlayer.play: the options pick_one draws from.
RandomOptions(self, player_number) ==
    (IF self.last_play # None THEN {Response("PICK_UP_DISCARD_PILE", None)} ELSE {})
    \cup {Response("PLAY_KNOWN_CARDS", Some(play)) :
            play \in get_available_plays(self.player_hands[player_number], self.last_play,
                                         self.discard_pile)}

\* RandomPlayer.set_table_cards in the loop of loop_until_valid_table_cards.
RandomSetTableCards ==
    /\ pc = "set_table_cards"
    /\ LET h == player_hands[table_player].hand_stack
           combination == serialize_cards(SubSeq(h, Len(h) - 2, Len(h)))
           selection == handle_table_card_selection(
                            Game, table_player, Response("SET_TABLE_CARDS", Some(combination)))
           last == selection.valid /\ table_player = number_of_players - 1
       IN  /\ GameNext(selection.self)
           /\ table_player' = IF selection.valid /\ ~last THEN table_player + 1
                              ELSE table_player
           /\ pc' = IF ~last THEN pc
                    ELSE IF total_cards(selection.self) = DECK_LEN THEN "run"
                    ELSE "aborted"
    /\ UNCHANGED free_plays

\* One pass of the loop of loop_until_valid_play with a RandomPlayer's reply.
RandomPlay ==
    /\ pc = "run"
    /\ does_hand_have_known_cards(player_hands[player_turn])
    /\ LET greedy == GreedyResponse(Game, player_turn)
           random == deck # <<>> \/ Len(eliminated_cards) >= RandomFrom
           followed == IF random
                       THEN RandomOptions(Game, player_turn)
                                \cap {Response("PICK_UP_DISCARD_PILE", None), greedy}
                       ELSE {greedy}
       IN  \E response \in followed : AfterPlay(get_valid_play(Game, player_turn, response))
    /\ UNCHANGED free_plays

\* The history variable: the game as it was before a step that started with
\* an empty discard pile may be remembered, once.
Remember ==
    /\ earlier' \in IF earlier = None /\ pc = "run" /\ discard_pile = <<>>
                    THEN {None, Game} ELSE {earlier}
    /\ UNCHANGED <<call, messaging, player_states>>

RandomNext ==
    \/ Setup /\ Remember
    \/ RandomSetTableCards /\ Remember
    \/ RandomPlay /\ Remember
    \/ PlayFaceDown /\ Remember

RandomSpec == Init /\ [][RandomNext]_vars

(***************************************************************************)
(* The end of a game: the turn loop from a position late in a game, where  *)
(* player 0 has played all face-up cards and holds at most one hand card,  *)
(* while the deck may still hold cards (each burn that a player makes      *)
(* with the only hand card leaves the player without hand cards and the    *)
(* deck as it is).  The cards are those of a shuffled deck, cut into the   *)
(* deck, the cards of the players, the discard pile (where no 10 can lie)  *)
(* and the eliminated cards.                                               *)
(***************************************************************************)
EndgameInit ==
    /\ number_of_players = MIN_PLAYERS
    /\ \E k \in 1 .. NumShuffles, in_deck \in 0 .. 2, stacks \in 1 .. 2, in_hand \in 0 .. 1,
          on_pile \in 0 .. 1 :
           LET cards == Shuffle(Deck, k)
               Cut(from, count) == SubSeq(cards, from + 1, from + count)
               own == in_deck + stacks + in_hand
               other == own + on_pile
           IN  /\ deck = Cut(0, in_deck)
               /\ player_hands =
                      (0 :> [table_stacks |-> [i \in 1 .. stacks |->
                                                  TableStack(cards[in_deck + i])],
                             hand_stack |-> Cut(in_deck + stacks, in_hand)])
                      @@ (1 :> [table_stacks |-> <<TableStack(cards[other + 1])>>,
                                hand_stack |-> SortCards(Cut(other + 1, 3))])
               /\ discard_pile = Cut(own, on_pile)
               /\ \A i \in DOMAIN discard_pile : discard_pile[i].value # "10"
               /\ last_play = IF on_pile = 0 THEN None ELSE Some(Cut(own, on_pile))
               /\ eliminated_cards = Cut(other + 4, DECK_LEN - other - 4)
    /\ player_turn = 0
    /\ win = None
    /\ update_queue = <<>>
    /\ pc = "run"
    /\ table_player = number_of_players - 1
    /\ free_plays = 0
    /\ call = None
    /\ NoProtocol

EndgameNext ==
    \/ GetValidPlay /\ GameOnly
    \/ PlayFaceDown /\ GameOnly

EndgameSpec == EndgameInit /\ [][EndgameNext]_vars

(***************************************************************************)
(* The play of the face-up cards: the turn loop from a position late in a  *)
(* game, where the deck is empty and player 0 holds no hand card and one   *)
(* or two table stacks with the face-up cards that player chose, whatever  *)
(* their values.  The cards are those of a shuffled deck, cut into the     *)
(* eliminated cards, the cards of the players and the discard pile (where  *)
(* no 10 can lie).                                                         *)
(***************************************************************************)
FaceUpInit ==
    /\ number_of_players = MIN_PLAYERS
    /\ \E k \in 1 .. NumShuffles, burnt \in 0 .. 4, stacks \in 1 .. 2, on_pile \in 0 .. 1 :
           LET cards == Shuffle(Deck, k)
               Cut(from, count) == SubSeq(cards, from + 1, from + count)
               own == burnt + 2 * stacks
               other == own + on_pile
           IN  /\ deck = <<>>
               /\ player_hands =
                      (0 :> [table_stacks |->
                                [i \in 1 .. stacks |->
                                    [TableStack(cards[burnt + stacks + i])
                                        EXCEPT !.top_card = Some(cards[burnt + i])]],
                             hand_stack |-> <<>>])
                      @@ (1 :> [table_stacks |-> <<TableStack(cards[other + 1])>>,
                                hand_stack |-> SortCards(Cut(other + 1, 3))])
               /\ discard_pile = Cut(own, on_pile)
               /\ \A i \in DOMAIN discard_pile : discard_pile[i].value # "10"
               /\ last_play = IF on_pile = 0 THEN None ELSE Some(Cut(own, on_pile))
               /\ eliminated_cards = Cut(0, burnt) \o Cut(other + 4, DECK_LEN - other - 4)
    /\ player_turn = 0
    /\ win = None
    /\ update_queue = <<>>
    /\ pc = "run"
    /\ table_player = number_of_players - 1
    /\ free_plays = 0
    /\ call = None
    /\ NoProtocol

FaceUpNext ==
    \/ GetValidPlay /\ GameOnly
    \/ PlayFaceDown /\ GameOnly

FaceUpSpec == FaceUpInit /\ [][FaceUpNext]_vars

(***************************************************************************)
(* src/src/player_state.py and src/src/players/simple_mcts_player.py: the  *)
(* game a player reconstructs from the tracker, and the search of the      *)
(* SimpleMCTS player over it.                                              *)
(***************************************************************************)
\* build_player_states: the tracker of each player of a game state; raised
\* when the assertion at its end fails.
build_player_states(game_state) ==
    LET PlayerNumbersOf == 0 .. game_state.number_of_players - 1
        opponents == [i \in PlayerNumbersOf |->
                         [Opponent EXCEPT
                             !.hand_count_unknown = Len(game_state.player_hands[i].hand_stack),
                             !.table_stack = build_face_up_table_stack(
                                                 game_state.player_hands[i].table_stacks),
                             !.table_stacks = Len(game_state.player_hands[i].table_stacks)]]
    IN  [i \in PlayerNumbersOf |->
            LET player_hand == game_state.player_hands[i]
                player_state ==
                    [PlayerState(i) EXCEPT
                        !.built = TRUE,
                        !.discard_pile = game_state.discard_pile,
                        !.last_play = game_state.last_play,
                        !.eliminated_cards = game_state.eliminated_cards,
                        !.deck_length = Len(game_state.deck),
                        !.win = None,
                        !.number_of_players = game_state.number_of_players,
                        !.table_cards_set = game_state.table_cards_set,
                        !.opponents = [o \in PlayerNumbersOf \ {i} |-> opponents[o]],
                        !.hand = [hand_stack |-> player_hand.hand_stack,
                                  table_stack |->
                                      build_face_up_table_stack(player_hand.table_stacks),
                                  table_stacks |-> Len(player_hand.table_stacks)]]
            IN  [player_state EXCEPT !.raised = belief_total_cards(player_state) # DECK_LEN]]

\* The hand and table cards a tracker holds of player p.
Side(self, p) == IF p = self.player_number THEN self.hand ELSE self.opponents[p]

\* A variant that leaves the known hand cards of the opponents in the deck.
known_cards_but_opponents_hands(self) ==
    self.discard_pile \o self.eliminated_cards
    \o Concat([i \in 1 .. self.number_of_players |->
                 (IF i - 1 = self.player_number THEN self.hand.hand_stack ELSE <<>>)
                 \o Side(self, i - 1).table_stack])

\* The cards create_game_state takes out of the new deck with deck.get.
known_cards(self) ==
    self.discard_pile \o self.eliminated_cards
    \o Concat([i \in 1 .. self.number_of_players |->
                 Side(self, i - 1).hand_stack \o Side(self, i - 1).table_stack])

\* PlayerState.create_game_state with the k-th shuffle of the new deck.
\* raised: an index out of range (more face-up cards than table stacks, no
\* card left for a bottom card) or the assertion on the length of the deck.
create_game_state(self, k) ==
    LET n == self.number_of_players
        Unknown(p) == IF p = self.player_number THEN 0
                      ELSE self.opponents[p].hand_count_unknown
        known == known_cards(self)
        \* the shuffled deck after deck.get of each known card
        unknown == SelectSeq(Shuffle(Deck, k),
                             LAMBDA card : \A i \in DOMAIN known : known[i] # card)
        \* the number of cards dealt before those of player p
        before[p \in 0 .. n] ==
            IF p = 0 THEN 0 ELSE before[p - 1] + Side(self, p - 1).table_stacks + Unknown(p - 1)
        \* the i-th card that deck.deal takes
        Dealt(i) == unknown[Len(unknown) + 1 - i]
        index_error ==
            \E p \in 0 .. n - 1 :
                \/ Len(Side(self, p).table_stack) > Side(self, p).table_stacks
                \/ before[p] + Side(self, p).table_stacks > Len(unknown)
        deck_ == SubSeq(unknown, 1, Len(unknown) - before[n])
        player_hands_ ==
            [p \in 0 .. n - 1 |->
                [hand_stack |->
                     Side(self, p).hand_stack
                     \o [i \in 1 .. Min(Unknown(p),
                                        Len(unknown) - before[p] - Side(self, p).table_stacks) |->
                            Dealt(before[p] + Side(self, p).table_stacks + i)],
                 table_stacks |->
                     [i \in 1 .. Side(self, p).table_stacks |->
                         [top_card |-> IF i <= Len(Side(self, p).table_stack)
                                       THEN Some(Side(self, p).table_stack[i]) ELSE None,
                          bottom_card |-> Dealt(before[p] + i)]]]]
    IN  IF index_error \/ Len(deck_) # self.deck_length
        THEN [raised |-> TRUE, game_state |-> None]
        ELSE [raised |-> FALSE,
              game_state |-> Some([deck |-> deck_,
                                   discard_pile |-> self.discard_pile,
                                   eliminated_cards |-> self.eliminated_cards,
                                   player_hands |-> player_hands_,
                                   last_play |-> self.last_play,
                                   number_of_players |-> n,
                                   player_turn |-> self.player_number,
                                   win |-> None,
                                   table_cards_set |-> self.table_cards_set])]

\* The game state of the engine at a turn, as build_game reads it.
GameState == [deck |-> deck, discard_pile |-> discard_pile,
              eliminated_cards |-> eliminated_cards, player_hands |-> player_hands,
              last_play |-> last_play, number_of_players |-> number_of_players,
              player_turn |-> player_turn, win |-> win, table_cards_set |-> pc = "run"]

\* build_game: the Game object of simulate_game; Game.__init__ has queued
\* GAME_INITIATED for every player.
build_game(game_state) ==
    [number_of_players |-> game_state.number_of_players, deck |-> game_state.deck,
     discard_pile |-> game_state.discard_pile,
     eliminated_cards |-> game_state.eliminated_cards,
     player_hands |-> game_state.player_hands, last_play |-> game_state.last_play,
     player_turn |-> game_state.player_turn, win |-> game_state.win,
     update_queue |-> game_initiated(game_state.number_of_players)]

\* create_players and build_game in simulate: the Game object, the
\* GreedyPlayer of every player with the tracker build_player_states makes
\* of the reconstructed game, and the reply each of them gives to a PLAY
\* request while its tracker is as built.
create_simulation(created) ==
    IF created.raised THEN None
    ELSE CHOOSE simulation \in
             {Some([game |-> game,
                    players |-> build_player_states(Get(created.game_state)),
                    replies |-> [q \in 0 .. game.number_of_players - 1 |->
                                    GreedyResponse(game, q)]]) :
                 game \in {build_game(Get(created.game_state))}} : TRUE

\* The player who is sent a PLAY request reconstructs the game.  The
\* tracker is the one build_player_states makes of the game, and knows
\* `seen` cards of the hand of each opponent, as after a pickup of the
\* discard pile.  The new deck is shuffled as the last of the shuffles of
\* the model; the players and the game of the rollouts are made once
\* SimulateFrom cards are eliminated.
CreateGameState ==
    /\ pc = "run"
    /\ does_hand_have_known_cards(player_hands[player_turn])
    /\ call = None
    /\ \E seen \in 0 .. 1, built \in {build_player_states(GameState)[player_turn]} :
           \E player_state \in
                  {[built EXCEPT !.opponents =
                       [o \in DOMAIN @ |->
                           LET s == Min(seen, @[o].hand_count_unknown)
                           IN  [@[o] EXCEPT
                                   !.hand_stack = SubSeq(player_hands[o].hand_stack, 1, s),
                                   !.hand_count_unknown = @ - s]]]} :
               \E created \in {create_game_state(player_state, NumShuffles)} :
                   call' = [player_state |-> player_state,
                            created |-> created,
                            simulation |-> IF Len(eliminated_cards) >= SimulateFrom
                                           THEN create_simulation(created)
                                           ELSE None]
    /\ UNCHANGED <<number_of_players, deck, discard_pile, eliminated_cards, player_hands,
                   last_play, player_turn, win, update_queue, pc, table_player, free_plays,
                   messaging, player_states, earlier>>

\* Game.run in simulate_game, with route_communication passing each request
\* to its recipient: the first PLAY request is answered with `first`, the
\* reply that simulate tests, the later ones by the GreedyPlayer of the
\* recipient.  Messaging sends no update before PLAYER_WINS, so the tracker
\* of a player stays as create_players built it and the player gives the
\* same reply, replies[q], to every request.  A rejected reply is asked for
\* again and given again until simulate stops the rollout, as it does
\* after `messages` requests.
RECURSIVE Rollout(_, _, _, _)
Rollout(self, first, replies, messages) ==
    LET requested == does_hand_have_known_cards(self.player_hands[self.player_turn])
        response == IF ~requested THEN Response("PLAY_FACE_DOWN", None)
                    ELSE IF first # None THEN Get(first)
                    ELSE replies[self.player_turn]
        Played(play) ==
            IF requested /\ (~play.valid \/ messages = 0)
            THEN [self |-> self, cut_off |-> TRUE]
            ELSE Rollout(play.self, IF requested THEN None ELSE first, replies,
                         IF requested THEN messages - 1 ELSE messages)
    IN  IF self.win # None THEN [self |-> self, cut_off |-> FALSE]
        ELSE CHOOSE rollout \in
                 {Played(play) :
                     play \in {get_valid_play(self, self.player_turn, response)}} : TRUE

\* simulate after create_game_state, from what create_players and
\* build_game made of the reconstructed game, with `response` as the first
\* reply.  The result holds raised (simulate ends with an exception),
\* returned (the value it returns) and what the rollout came to: the
\* winner, or cut_off.
simulate(simulation, player_number, response) ==
    LET players == simulation.players
        \* update_players at PLAYER_WINS: each player is sent the queue
        Result(rollout) ==
            LET told == [q \in DOMAIN players |->
                            Updated(players[q], rollout.self.update_queue)]
            IN  [raised |-> \/ \E q \in DOMAIN players : players[q].raised
                            \/ ~rollout.cut_off /\ \E q \in DOMAIN players : told[q].raised,
                 returned |-> Some((IF rollout.cut_off THEN players[player_number]
                                    ELSE told[player_number]).win = Some(player_number)),
                 winner |-> rollout.self.win,
                 cut_off |-> rollout.cut_off]
    IN  CHOOSE result \in
            {Result(rollout) :
                rollout \in {Rollout(simulation.game, Some(response), simulation.replies,
                                     MaxMessages)}} : TRUE

\* SimpleMCTS.play: one rollout of test_play for one of the options, in
\* the game the player has reconstructed.
Simulate ==
    /\ call # None
    /\ "simulation" \in DOMAIN call
    /\ call.simulation # None
    /\ \E response \in RandomOptions(Game, player_turn) :
           call' = [player_state |-> call.player_state, play |-> response,
                    simulated |-> simulate(Get(call.simulation),
                                           call.player_state.player_number, response)]
    /\ UNCHANGED <<number_of_players, deck, discard_pile, eliminated_cards, player_hands,
                   last_play, player_turn, win, update_queue, pc, table_player, free_plays,
                   messaging, player_states, earlier>>

MctsNext ==
    \/ Setup /\ GameOnly
    \/ SetTableCards /\ GameOnly
    \/ call = None /\ GetValidPlay /\ GameOnly
    \/ call = None /\ PlayFaceDown /\ GameOnly
    \/ CreateGameState
    \/ Simulate

MctsSpec == Init /\ [][MctsNext]_vars

(***************************************************************************)
(* uniform_monte_carlo_tree_search on its own.  play_win_pct[i] stands for *)
(* what test_play returns for play_options[i]: the number of the rollouts  *)
(* won, of Iterations rollouts for every option.                           *)
(***************************************************************************)
\* A variant that takes a play whose win rate is not below the best so far.
uniform_monte_carlo_tree_search_not_below(play_options, play_win_pct) ==
    LET tested[i \in 0 .. Len(play_options)] ==
            IF i = 0 THEN [win_pct |-> 0, chosen_play |-> play_options[1]]
            ELSE IF play_win_pct[i] >= tested[i - 1].win_pct
            THEN [win_pct |-> play_win_pct[i], chosen_play |-> play_options[i]]
            ELSE tested[i - 1]
    IN  IF Len(play_options) > 1 THEN tested[Len(play_options)].chosen_play
        ELSE play_options[1]

uniform_monte_carlo_tree_search(play_options, play_win_pct) ==
    LET tested[i \in 0 .. Len(play_options)] ==
            IF i = 0 THEN [win_pct |-> 0, chosen_play |-> play_options[1]]
            ELSE IF play_win_pct[i] > tested[i - 1].win_pct
            THEN [win_pct |-> play_win_pct[i], chosen_play |-> play_options[i]]
            ELSE tested[i - 1]
    IN  IF Len(play_options) > 1 THEN tested[Len(play_options)].chosen_play
        ELSE play_options[1]

\* The options of a player who holds the 2, the Jack and two Queens of a
\* suit on a last play: the pickup and the plays, the first count of them.
SearchInit ==
    /\ GameInit
    /\ NoProtocol
    /\ \E count \in 1 .. MaxOptions :
           \E play_win_pct \in [1 .. count -> 0 .. Iterations] :
               call = [play_options |-> SubSeq(<<"1", "S2", "SJ", "SQ", "SQ,HQ">>, 1, count),
                       play_win_pct |-> play_win_pct,
                       chosen_play |-> None]

Search ==
    /\ call.chosen_play = None
    /\ call' = [call EXCEPT !.chosen_play =
                    Some(uniform_monte_carlo_tree_search(call.play_options,
                                                         call.play_win_pct))]
    /\ UNCHANGED <<number_of_players, deck, discard_pile, eliminated_cards, player_hands,
                   last_play, player_turn, win, update_queue, pc, table_player, free_plays,
                   messaging, player_states, earlier>>

SearchSpec == SearchInit /\ [][Search]_vars

(***************************************************************************)
(* serialize_card and deserialize_card on their own (src/src/utilities.py):*)
(* the input is a card of the program's deck, which is serialized and      *)
(* deserialized, or a code of at most MaxCodeLen characters, which is      *)
(* deserialized.                                                           *)
(***************************************************************************)
\* The characters of the codes: those of the suits and the values, and
\* some that are neither.
CodeChars == DOMAIN DECODE_SUIT \cup DOMAIN DECODE_VALUE \cup {"X", "1", "0", "h"}

Codes == UNION {[1 .. n -> CodeChars] : n \in 0 .. MaxCodeLen}

SerialInit ==
    /\ GameInit
    /\ NoProtocol
    /\ \/ \E i \in DOMAIN FullDeck :
              call = [card |-> Some(FullDeck[i]), code |-> None, returned |-> FALSE,
                      result |-> None]
       \/ \E code \in Codes :
              call = [card |-> None, code |-> Some(code), returned |-> FALSE,
                      result |-> None]

SerialApply ==
    /\ ~call.returned
    /\ call' = [call EXCEPT
                    !.returned = TRUE,
                    !.result = IF call.card # None
                               THEN deserialize_card(serialize_card(Get(call.card)))
                               ELSE deserialize_card(Get(call.code))]
    /\ UNCHANGED <<number_of_players, deck, discard_pile, eliminated_cards, player_hands,
                   last_play, player_turn, win, update_queue, pc, table_player, free_plays,
                   messaging, player_states, earlier>>

SerialSpec == SerialInit /\ [][SerialApply]_vars

(***************************************************************************)
(* What a state shows of the step that led to it, and what the engine      *)
(* would make of each reply in it.                                         *)
(***************************************************************************)
UpdateTypes(queue) == {queue[i].update.update_type : i \in DOMAIN queue}

Emitted(update_type) == update_type \in UpdateTypes(update_queue)

\* The updates that follow play_cards.
AcceptedPlayTypes == {"PLAY_FROM_HAND", "PLAY_FROM_TABLE", "PLAY_FROM_FACEDOWN_SUCCESS"}

FailedPlayTypes == {"PLAY_FROM_FACEDOWN_FAILURE", "PLAY_FROM_FACEUP_FAILURE"}

\* The entries of a queue that tell of an accepted play.
PlayEntries(queue) ==
    {i \in DOMAIN queue : queue[i].update.update_type \in AcceptedPlayTypes}

\* The cards such an entry names.
EntryCards(entry) == Get(deserialize_cards(Get(entry.update.cards)))

\* The cards of the accepted play a queue tells of.
PlayedCards(queue) == EntryCards(queue[CHOOSE i \in PlayEntries(queue) : TRUE])

\* All the places of a game where a card can be, one after the other.
CardPlaces(self) ==
    self.deck \o self.discard_pile \o self.eliminated_cards
    \o Concat([i \in 1 .. self.number_of_players |->
                 LET hand == self.player_hands[i - 1]
                 IN  hand.hand_stack
                     \o build_face_up_table_stack(hand.table_stacks)
                     \o [j \in DOMAIN hand.table_stacks |-> hand.table_stacks[j].bottom_card]])

\* The engine waits for the current player's play.
AtTurn == pc = "run"

\* The replies the current player may give: any of PlayResponses to a PLAY
\* request, none to read when the engine plays a face-down card.
Replies ==
    IF does_hand_have_known_cards(player_hands[player_turn])
    THEN PlayResponses(player_hands[player_turn])
    ELSE {Response("PLAY_FACE_DOWN", None)}

\* What get_valid_play makes of a reply in this state.
Outcome(response) == get_valid_play(Game, player_turn, response)

\* Two games with the same fields, whatever their queues.
SameGame(a, b) ==
    /\ a.number_of_players = b.number_of_players
    /\ a.deck = b.deck
    /\ a.discard_pile = b.discard_pile
    /\ a.eliminated_cards = b.eliminated_cards
    /\ a.player_hands = b.player_hands
    /\ a.last_play = b.last_play
    /\ a.player_turn = b.player_turn
    /\ a.win = b.win

\* The queue holds one update, an INVALID_ACTION for the player.
OnlyInvalidAction(queue, player_number) ==
    /\ Len(queue) = 1
    /\ queue[1].recipient = player_number
    /\ queue[1].update.update_type = "INVALID_ACTION"

\* The cards a PLAY_KNOWN_CARDS reply names, none when it names no list of
\* well-formed codes.
NamedCards(response) ==
    IF response.cards = None THEN <<>>
    ELSE IF deserialize_cards(Get(response.cards)) = None THEN <<>>
    ELSE Get(deserialize_cards(Get(response.cards)))

(***************************************************************************)
(* C1.  Card conservation.                                                 *)
(***************************************************************************)
\* C1: in every state the engine reaches, whatever the players reply, the
\* deck, the discard pile, the eliminated cards and the players' cards
\* (hand cards, two per table stack with a top card, one per table stack
\* without) number DECK_LEN, and the assertion of run never fails.
C1_CardConservation ==
    /\ assert_conservation_of_cards(Game)
    /\ pc # "aborted"

(***************************************************************************)
(* C2.  No duplicates, no losses.                                          *)
(***************************************************************************)
\* C2: in every reachable state each card of the deck is in exactly one
\* place among the deck, the discard pile, the eliminated cards, a hand and
\* the top and bottom slots of the table stacks.
C2_EachCardInOnePlace ==
    \A card \in Range(Deck) :
        Cardinality({i \in DOMAIN CardPlaces(Game) : CardPlaces(Game)[i] = card}) = 1

HeldInHand(hand, cards) ==
    /\ Len(cards) >= 1
    /\ Cardinality({cards[i].value : i \in DOMAIN cards}) = 1
    /\ Cardinality(Range(cards)) = Len(cards)
    /\ Range(cards) \subseteq Range(hand.hand_stack)

\* The cards of a value in the hand.
GroupInHand(hand, value) == {c \in Range(hand.hand_stack) : c.value = value}

\* The player's group of the value, fewer than 4 cards, makes four of the
\* value with the top cards of the discard pile.
CompletesFour(hand, value) ==
    LET n == Cardinality(GroupInHand(hand, value))
    IN  /\ n < 4
        /\ Len(discard_pile) >= 4 - n
        /\ \A i \in Len(discard_pile) - (4 - n) + 1 .. Len(discard_pile) :
               discard_pile[i].value = value

\* k cards of the value are not below last_play: the value's place in VALUES
\* is not before that of last_play's, and k is at least the number of cards
\* of last_play (the lowest value and 1 when last_play is empty).
NotBelowLastPlay(value, k) ==
    /\ ValueIndex[value] >=
           (IF last_play = None THEN ValueIndex["2"]
            ELSE ValueIndex[Get(last_play)[1].value])
    /\ k >= (IF last_play = None THEN 1 ELSE Len(Get(last_play)))

\* Legal by any one of the three rules.
LegalByAnyRule(hand, cards) ==
    /\ HeldInHand(hand, cards)
    /\ \/ Len(cards) = 1 /\ cards[1].value \in {"2", "10"}
       \/ /\ CompletesFour(hand, cards[1].value)
          /\ Range(cards) = GroupInHand(hand, cards[1].value)
       \/ NotBelowLastPlay(cards[1].value, Len(cards))

\* Legal by the first rule that applies to the value.
LegalByFirstRule(hand, cards) ==
    /\ HeldInHand(hand, cards)
    /\ IF cards[1].value \in {"2", "10"} THEN Len(cards) = 1
       ELSE IF CompletesFour(hand, cards[1].value)
       THEN Range(cards) = GroupInHand(hand, cards[1].value)
       ELSE NotBelowLastPlay(cards[1].value, Len(cards))

\* The PLAY_KNOWN_CARDS replies of the current player, whose hand is not
\* empty.
HandReplies ==
    IF AtTurn /\ Len(player_hands[player_turn].hand_stack) > 0
    THEN {r \in PlayResponses(player_hands[player_turn]) : r.action = "PLAY_KNOWN_CARDS"}
    ELSE {}

\* C4 as stated: with a hand that is not empty, the engine accepts a
\* PLAY_KNOWN_CARDS reply exactly when its cards are held and are a single 2
\* or 10, or the whole group that completes four, or k cards not below
\* last_play.
C4_AcceptedIffAnyRule ==
    \A response \in HandReplies :
        Outcome(response).valid
            <=> LegalByAnyRule(player_hands[player_turn], NamedCards(response))

\* C4, amended: with a hand that is not empty, the engine accepts a
\* PLAY_KNOWN_CARDS reply exactly when its cards are held and, for a 2 or a
\* 10, are a single card; for another value whose group completes four with
\* the top of the discard pile, are the whole group; for any other value,
\* are k cards not below last_play.  An accepted reply is played from the
\* hand.
C4_AcceptedIffFirstRule ==
    \A response \in HandReplies :
        /\ Outcome(response).valid
               <=> LegalByFirstRule(player_hands[player_turn], NamedCards(response))
        /\ Outcome(response).valid =>
               UpdateTypes(Outcome(response).self.update_queue) \cap
                   (AcceptedPlayTypes \cup FailedPlayTypes) = {"PLAY_FROM_HAND"}

\* The player to act holds a group, of a value other than 2 and 10, that
\* completes four while fewer of its cards would do against last_play, and
\* has a reply that the engine accepts.
C4_Witness ==
    /\ AtTurn
    /\ \E response \in HandReplies :
           /\ LegalByAnyRule(player_hands[player_turn], NamedCards(response))
           /\ ~LegalByFirstRule(player_hands[player_turn], NamedCards(response))
           /\ NamedCards(response)[1].value \notin {"2", "10"}
    /\ \E response \in HandReplies : Outcome(response).valid

(***************************************************************************)
(* C5.  Rejected replies leave the game unchanged.                         *)
(***************************************************************************)
\* C5: whenever the engine rejects the reply to a PLAY request, it queues an
\* INVALID_ACTION for that player and nothing else, and the deck, the
\* discard pile, the eliminated cards, all hands and table stacks, last_play,
\* player_turn and win are as before the reply, so that the same player is
\* asked again.
C5_RejectedUnchanged ==
    AtTurn =>
        \A response \in Replies :
            ~Outcome(response).valid =>
                /\ SameGame(Outcome(response).self, Game)
                /\ OnlyInvalidAction(Outcome(response).self.update_queue, player_turn)

\* A reply has been rejected and the engine is asking the same player again.
C5_Witness ==
    /\ AtTurn
    /\ OnlyInvalidAction(update_queue, player_turn)
    /\ Len(discard_pile) > 0

(***************************************************************************)
(* C6.  Cards not possessed.                                               *)
(***************************************************************************)
\* The cards the player may play: the hand, or the face-up table cards when
\* the hand is empty.
Possessed(hand) ==
    IF Len(hand.hand_stack) > 0 THEN Range(hand.hand_stack)
    ELSE Range(build_face_up_table_stack(hand.table_stacks))

\* C6: a PLAY_KNOWN_CARDS reply naming a card that the player does not
\* possess is rejected: INVALID_ACTION to the player, no play, no pickup, no
\* turn advance.
C6_NotPossessedRejected ==
    AtTurn =>
        \A response \in Replies :
            (/\ response.action = "PLAY_KNOWN_CARDS"
             /\ ~(Range(NamedCards(response)) \subseteq Possessed(player_hands[player_turn])))
            => /\ ~Outcome(response).valid
               /\ SameGame(Outcome(response).self, Game)
               /\ OnlyInvalidAction(Outcome(response).self.update_queue, player_turn)

(***************************************************************************)
(* C7.  Burn predicate.                                                    *)
(***************************************************************************)
\* The step emptied the discard pile into the eliminated cards.
Burned(after) ==
    /\ after.discard_pile = <<>>
    /\ after.eliminated_cards # eliminated_cards

\* The discard pile with the cards on it burns by the rule.
BurnsByRule(pile, cards) ==
    \/ cards[1].value = "10"
    \/ /\ Len(pile) >= 4
       /\ cards[1].value # "2"
       /\ \A i \in Len(pile) - 3 .. Len(pile) : pile[i].value = pile[Len(pile)].value

\* C7: an accepted play burns (the discard pile is emptied into the
\* eliminated cards) exactly when the cards played are 10s, or the discard
\* pile with the cards on it has at least 4 cards, the cards are not 2s and
\* its last 4 cards are of one value.
C7_BurnPredicate ==
    AtTurn =>
        \A response \in Replies :
            LET after == Outcome(response).self
                queue == after.update_queue
            IN  (Outcome(response).valid /\ PlayEntries(queue) # {}) =>
                    /\ Burned(after)
                           <=> BurnsByRule(discard_pile \o PlayedCards(queue),
                                           PlayedCards(queue))
                    /\ ~Burned(after) =>
                           /\ after.discard_pile = discard_pile \o PlayedCards(queue)
                           /\ after.eliminated_cards = eliminated_cards

\* A play of cards other than 10s has burned the discard pile.
C7_Witness ==
    /\ PlayEntries(update_queue) # {}
    /\ discard_pile = <<>>
    /\ Len(eliminated_cards) >= 4
    /\ PlayedCards(update_queue)[1].value # "10"

(***************************************************************************)
(* C8.  Effect of a burn.                                                  *)
(***************************************************************************)
\* C8: when a play burns, the discard pile with the cards played goes to the
\* eliminated cards, the discard pile and last_play become empty,
\* BURN_DISCARD_PILE is queued for every player, no card is drawn, and
\* player_turn stays.
C8_BurnEffect ==
    AtTurn =>
        \A response \in Replies :
            LET after == Outcome(response).self
            IN  (/\ Outcome(response).valid
                 /\ PlayEntries(after.update_queue) # {}
                 /\ BurnsByRule(discard_pile \o PlayedCards(after.update_queue),
                                PlayedCards(after.update_queue)))
                => /\ \A p \in PlayerNumbers(Game) :
                          \E i \in DOMAIN after.update_queue :
                              /\ after.update_queue[i].recipient = p
                              /\ after.update_queue[i].update.update_type =
                                     "BURN_DISCARD_PILE"
                   /\ after.eliminated_cards =
                          eliminated_cards \o discard_pile \o PlayedCards(after.update_queue)
                   /\ after.discard_pile = <<>>
                   /\ after.last_play = None
                   /\ after.deck = deck
                   /\ UpdateTypes(after.update_queue) \cap
                          {"YOU_DREW_CARD", "PLAYER_DREW_CARD"} = {}
                   /\ after.player_turn = player_turn

\* A burn of a pile that held cards before the play, with cards left to
\* draw.
C8_Witness ==
    /\ Emitted("BURN_DISCARD_PILE")
    /\ discard_pile = <<>>
    /\ last_play = None
    /\ PlayEntries(update_queue) # {}
    /\ Len(eliminated_cards) > Len(PlayedCards(update_queue))
    /\ Len(deck) > 0

(***************************************************************************)
(* C9.  Skip rule.                                                         *)
(***************************************************************************)
\* C9: after an accepted play that does not burn, player_turn has advanced
\* by 2 modulo the number of players when last_play before the play was not
\* empty and of the value of the cards played, other than 2; by 1 otherwise.
C9_SkipRule ==
    AtTurn =>
        \A response \in Replies :
            LET after == Outcome(response).self
                queue == after.update_queue
                skips == /\ last_play # None
                         /\ Get(last_play)[1].value = PlayedCards(queue)[1].value
                         /\ PlayedCards(queue)[1].value # "2"
            IN  (/\ Outcome(response).valid
                 /\ PlayEntries(queue) # {}
                 /\ ~Burned(after))
                => after.player_turn =
                       (player_turn + (IF skips THEN 2 ELSE 1)) % number_of_players

\* A play that did not burn has skipped the next player.
C9_Witness ==
    /\ pc = "run"
    /\ discard_pile # <<>>
    /\ \E i \in PlayEntries(update_queue) :
           LET actor == Get(update_queue[i].update.player_number)
           IN  /\ player_turn = (actor + 2) % number_of_players
               /\ player_turn # (actor + 1) % number_of_players

(***************************************************************************)
(* C10.  Pickup.                                                           *)
(***************************************************************************)
\* C10: the engine accepts PICK_UP_DISCARD_PILE exactly when the discard
\* pile is not empty; then the cards of the discard pile are in the player's
\* hand, the discard pile and last_play are empty, player_turn has advanced
\* by 1 modulo the number of players, and the deck, the eliminated cards,
\* the player's table stacks and the other players' cards are as before.
C10_Pickup ==
    (AtTurn /\ does_hand_have_known_cards(player_hands[player_turn])) =>
        LET pickup == Outcome(Response("PICK_UP_DISCARD_PILE", None))
            after == pickup.self
        IN  /\ pickup.valid <=> Len(discard_pile) > 0
            /\ pickup.valid =>
                   /\ after.player_hands[player_turn].hand_stack =
                          SortCards(player_hands[player_turn].hand_stack \o discard_pile)
                   /\ after.player_hands[player_turn].table_stacks =
                          player_hands[player_turn].table_stacks
                   /\ \A p \in PlayerNumbers(Game) \ {player_turn} :
                          after.player_hands[p] = player_hands[p]
                   /\ after.discard_pile = <<>>
                   /\ after.last_play = None
                   /\ after.player_turn = (player_turn + 1) % number_of_players
                   /\ after.deck = deck
                   /\ after.eliminated_cards = eliminated_cards
                   /\ after.win = win

\* A player with cards in the hand has picked up a discard pile: the hand
\* holds more cards than the pile did.
C10_Witness ==
    /\ pc = "run"
    /\ discard_pile = <<>>
    /\ last_play = None
    /\ UpdateTypes(update_queue) \cap (AcceptedPlayTypes \cup FailedPlayTypes) = {}
    /\ \E i \in DOMAIN update_queue :
           /\ update_queue[i].update.update_type = "YOU_PICKED_UP_DISCARD_PILE"
           /\ Len(Get(update_queue[i].update.cards)) > 0
           /\ Len(player_hands[update_queue[i].recipient].hand_stack)
                  > Len(Get(update_queue[i].update.cards))
           /\ player_turn = (update_queue[i].recipient + 1) % number_of_players

(***************************************************************************)
(* C11.  Victory.                                                          *)
(***************************************************************************)
\* The updates that tell of a drawn card.
DrawTypes == {"YOU_DREW_CARD", "PLAYER_DREW_CARD"}

\* The play has left the player without hand cards and without table stacks.
LeavesNoCards(after, player_number) ==
    /\ Len(after.player_hands[player_number].hand_stack) = 0
    /\ Len(after.player_hands[player_number].table_stacks) = 0

\* C11: an accepted play that leaves the acting player without hand cards
\* and table stacks sets win to that player and queues PLAYER_WINS, and
\* nothing more comes of it: no burn, no card drawn, player_turn and the
\* eliminated cards as before the play, the winner holding no card.
C11_VictoryEndsPlay ==
    AtTurn =>
        \A response \in Replies :
            LET after == Outcome(response).self
            IN  (Outcome(response).valid /\ LeavesNoCards(after, player_turn))
                => /\ after.win = Some(player_turn)
                   /\ "PLAYER_WINS" \in UpdateTypes(after.update_queue)
                   /\ "BURN_DISCARD_PILE" \notin UpdateTypes(after.update_queue)
                   /\ UpdateTypes(after.update_queue) \cap DrawTypes = {}
                   /\ after.player_turn = player_turn
                   /\ after.eliminated_cards = eliminated_cards
                   /\ count_player_cards(after.player_hands[player_turn]) = 0

(***************************************************************************)
(* C12.  Trump relation of a revealed face-down card.                      *)
(***************************************************************************)
\* The engine is about to reveal the current player's last face-down card.
AtFaceDown == AtTurn /\ ~does_hand_have_known_cards(player_hands[player_turn])

\* The card it reveals.
RevealedCard == Last(player_hands[player_turn].table_stacks).bottom_card

\* C12: the revealed card is played with PLAY_FROM_FACEDOWN_SUCCESS exactly
\* when last_play is empty, or the card's value is not below that of
\* last_play in the order of the values, or the card is a 10 or a 2;
\* neither its suit nor the number of cards of last_play has a part.
C12_FaceDownTrump ==
    AtFaceDown =>
        LET after == Outcome(Response("PLAY_FACE_DOWN", None)).self
        IN  "PLAY_FROM_FACEDOWN_SUCCESS" \in UpdateTypes(after.update_queue)
                <=> \/ last_play = None
                    \/ ValueIndex[RevealedCard.value] >= ValueIndex[Get(last_play)[1].value]
                    \/ RevealedCard.value \in {"10", "2"}

(***************************************************************************)
(* C13.  does_play_trump_last_play, applied on its own.                    *)
(***************************************************************************)
\* The stacks of one value in sorted order, as the engine's plays are.
EqualValueStacks ==
    {SelectSeq(Deck, LAMBDA c : c.value = v /\ c.suit \in S) :
        v \in DeckValues, S \in SUBSET Range(SUITS) \ {{}}}

TrumpInit ==
    /\ GameInit
    /\ call \in [cards_played : EqualValueStacks,
                 last_play : {None} \cup {Some(s) : s \in EqualValueStacks},
                 result : {None}]
    /\ NoProtocol

TrumpApply ==
    /\ call.result = None
    /\ call' = [call EXCEPT !.result =
                    Some(does_play_trump_last_play(call.cards_played, call.last_play))]
    /\ UNCHANGED <<number_of_players, deck, discard_pile, eliminated_cards, player_hands,
                   last_play, player_turn, win, update_queue, pc, table_player, free_plays,
                   messaging, player_states, earlier>>

TrumpSpec == TrumpInit /\ [][TrumpApply]_vars

\* C13: does_play_trump_last_play is true without a last play; with one it
\* is false when the cards played are fewer or of a lower value, and true
\* when they are as many or more and of a value not lower.
C13_TrumpFunction ==
    (call # None /\ call.result # None) =>
        LET cards_played == call.cards_played
            result == Get(call.result)
        IN  IF call.last_play = None THEN result
            ELSE LET fewer == Len(cards_played) < Len(Get(call.last_play))
                     lower == ValueIndex[cards_played[1].value]
                                  < ValueIndex[Get(call.last_play)[1].value]
                 IN  /\ (fewer \/ lower) => ~result
                     /\ (~fewer /\ ~lower) => result

(***************************************************************************)
(* C14.  A face-down card that does not trump.                             *)
(***************************************************************************)
\* C14: when the revealed card does not trump last_play, the play is
\* accepted and the player's last table stack is gone, the revealed card and
\* the cards of the discard pile are in the player's hand, the discard pile
\* and last_play are empty, PLAY_FROM_FACEDOWN_FAILURE is queued, and
\* player_turn has advanced by 1 modulo the number of players; nothing else
\* has changed.
C14_FaceDownFailure ==
    (AtFaceDown /\ ~does_play_trump_last_play(<<RevealedCard>>, last_play)) =>
        LET play == Outcome(Response("PLAY_FACE_DOWN", None))
            after == play.self
            hand == player_hands[player_turn]
        IN  /\ play.valid
            /\ after.player_hands[player_turn].table_stacks = Front(hand.table_stacks)
            /\ after.player_hands[player_turn].hand_stack =
                   SortCards(hand.hand_stack \o <<RevealedCard>> \o discard_pile)
            /\ after.discard_pile = <<>>
            /\ after.last_play = None
            /\ \E i \in DOMAIN after.update_queue :
                   /\ after.update_queue[i].update.update_type = "PLAY_FROM_FACEDOWN_FAILURE"
                   /\ after.update_queue[i].update.player_number = Some(player_turn)
                   /\ after.update_queue[i].update.cards =
                          Some(serialize_cards(<<RevealedCard>>))
            /\ UpdateTypes(after.update_queue) \cap AcceptedPlayTypes = {}
            /\ after.player_turn = (player_turn + 1) % number_of_players
            /\ after.deck = deck
            /\ after.eliminated_cards = eliminated_cards
            /\ after.win = win
            /\ \A p \in PlayerNumbers(Game) \ {player_turn} :
                   after.player_hands[p] = player_hands[p]

\* A face-down card has failed: the player holds it with the cards of the
\* pile, and the turn has passed on.
C14_Witness ==
    /\ pc = "run"
    /\ discard_pile = <<>>
    /\ last_play = None
    /\ \E i \in DOMAIN update_queue :
           LET update == update_queue[i].update
               actor == Get(update.player_number)
           IN  /\ update.update_type = "PLAY_FROM_FACEDOWN_FAILURE"
               /\ Range(EntryCards(update_queue[i]))
                      \subseteq Range(player_hands[actor].hand_stack)
               /\ Len(player_hands[actor].hand_stack) > 1
               /\ player_turn = (actor + 1) % number_of_players

(***************************************************************************)
(* C15.  PLAY_FACE_DOWN is the engine's choice.                            *)
(***************************************************************************)
\* A response of each action of game_types.Action, without cards.
ActionResponses ==
    {Response(action, None) :
        action \in {"SET_TABLE_CARDS", "PLAY_FACE_DOWN", "PLAY_FACE_UP", "PLAY_FROM_HAND",
                    "PICK_UP_DISCARD_PILE", "PLAY_KNOWN_CARDS"}}

FaceDownTypes == {"PLAY_FROM_FACEDOWN_SUCCESS", "PLAY_FROM_FACEDOWN_FAILURE"}

\* C15: when the current player has neither hand cards nor face-up cards
\* the engine plays the face-down card and sends no request, whatever the
\* player would reply; on every other turn it sends one PLAY request to the
\* current player, plays no face-down card, and rejects a reply of an action
\* other than PICK_UP_DISCARD_PILE and PLAY_KNOWN_CARDS, the game unchanged.
C15_FaceDownByEngineOnly ==
    AtTurn =>
        IF ~does_hand_have_known_cards(player_hands[player_turn])
        THEN \A response \in ActionResponses :
                 /\ Outcome(response).requests = <<>>
                 /\ Outcome(response).valid
                 /\ UpdateTypes(Outcome(response).self.update_queue) \cap FaceDownTypes # {}
                 /\ Len(Outcome(response).self.player_hands[player_turn].table_stacks)
                        = Len(player_hands[player_turn].table_stacks) - 1
        ELSE \A response \in Replies \cup ActionResponses :
                 /\ Outcome(response).requests =
                        <<[recipient |-> player_turn, request_type |-> "PLAY"]>>
                 /\ UpdateTypes(Outcome(response).self.update_queue) \cap FaceDownTypes = {}
                 /\ Len(Outcome(response).self.player_hands[player_turn].table_stacks)
                        = Len(player_hands[player_turn].table_stacks)
                 /\ response.action \notin {"PICK_UP_DISCARD_PILE", "PLAY_KNOWN_CARDS"}
                        => /\ ~Outcome(response).valid
                           /\ SameGame(Outcome(response).self, Game)
                           /\ OnlyInvalidAction(Outcome(response).self.update_queue,
                                                player_turn)

\* The engine has played a face-down card of a player, and the next player,
\* who has known cards, is to be asked.
C15_Witness ==
    /\ pc = "run"
    /\ UpdateTypes(update_queue) \cap FaceDownTypes # {}
    /\ does_hand_have_known_cards(player_hands[player_turn])
    /\ \E i \in DOMAIN update_queue :
           /\ update_queue[i].update.update_type \in FaceDownTypes
           /\ Get(update_queue[i].update.player_number) # player_turn

(***************************************************************************)
(* C16.  Plays of face-up table cards.                                     *)
(***************************************************************************)
\* The face-up cards of the current player.
FaceUpCards == build_face_up_table_stack(player_hands[player_turn].table_stacks)

\* The replies that name face-up cards of the current player, each once and
\* all of one value.
FaceUpReplies ==
    {response \in Replies :
        /\ response.action = "PLAY_KNOWN_CARDS"
        /\ NamedCards(response) # <<>>
        /\ Cardinality(Range(NamedCards(response))) = Len(NamedCards(response))
        /\ Range(NamedCards(response)) \subseteq Range(FaceUpCards)
        /\ are_all_cards_same_value(NamedCards(response))}

\* The table stacks of the current player without the top cards named.
TopsTaken(cards) ==
    [i \in DOMAIN player_hands[player_turn].table_stacks |->
        LET table_stack == player_hands[player_turn].table_stacks[i]
        IN  IF table_stack.top_card # None /\ Get(table_stack.top_card) \in Range(cards)
            THEN [table_stack EXCEPT !.top_card = None]
            ELSE table_stack]

\* The queue holds an update of the type that names the current player and
\* the cards.
TellsOfPlay(queue, update_type, cards) ==
    \E i \in DOMAIN queue :
        /\ queue[i].update.update_type = update_type
        /\ queue[i].update.player_number = Some(player_turn)
        /\ queue[i].update.cards = Some(serialize_cards(cards))

\* C16: a player without hand cards names face-up cards of one value that
\* the player has.  When they are not an available play they go from the
\* table stacks to the hand with the whole discard pile,
\* PLAY_FROM_FACEUP_FAILURE is queued, last_play is empty and player_turn
\* has advanced by 1; when they are an available play they leave the table
\* stacks, are played on the discard pile and PLAY_FROM_TABLE is queued.
C16_FaceUpPlay ==
    (AtTurn /\ Len(player_hands[player_turn].hand_stack) = 0) =>
        \A response \in FaceUpReplies :
            LET cards == SortCards(NamedCards(response))
                after == Outcome(response).self
                available ==
                    serialize_cards(cards) \in
                        get_available_plays_from_stack(FaceUpCards, last_play, discard_pile)
            IN  /\ Outcome(response).valid
                /\ after.player_hands[player_turn].table_stacks = TopsTaken(cards)
                /\ IF available
                   THEN /\ TellsOfPlay(after.update_queue, "PLAY_FROM_TABLE", cards)
                        /\ "PLAY_FROM_FACEUP_FAILURE" \notin UpdateTypes(after.update_queue)
                        /\ IF Burned(after)
                           THEN after.eliminated_cards =
                                    eliminated_cards \o discard_pile \o cards
                           ELSE /\ after.discard_pile = discard_pile \o cards
                                /\ after.eliminated_cards = eliminated_cards
                                /\ after.last_play = Some(cards)
                        /\ Range(cards) \cap
                               Range(after.player_hands[player_turn].hand_stack) = {}
                   ELSE /\ TellsOfPlay(after.update_queue, "PLAY_FROM_FACEUP_FAILURE", cards)
                        /\ "PLAY_FROM_TABLE" \notin UpdateTypes(after.update_queue)
                        /\ after.player_hands[player_turn].hand_stack =
                               SortCards(cards \o discard_pile)
                        /\ after.discard_pile = <<>>
                        /\ after.eliminated_cards = eliminated_cards
                        /\ after.last_play = None
                        /\ after.player_turn = (player_turn + 1) % number_of_players

\* A play of face-up cards has failed: the player holds them with the cards
\* of the pile and still has table stacks, and the turn has passed on.
C16_Witness ==
    /\ pc = "run"
    /\ discard_pile = <<>>
    /\ last_play = None
    /\ \E i \in DOMAIN update_queue :
           LET update == update_queue[i].update
               actor == Get(update.player_number)
           IN  /\ update.update_type = "PLAY_FROM_FACEUP_FAILURE"
               /\ Range(EntryCards(update_queue[i]))
                      \subseteq Range(player_hands[actor].hand_stack)
               /\ Len(player_hands[actor].hand_stack)
                      > Len(EntryCards(update_queue[i]))
               /\ Len(player_hands[actor].table_stacks) > 0
               /\ player_turn = (actor + 1) % number_of_players

(***************************************************************************)
(* C17.  The game after setup.                                             *)
(***************************************************************************)
\* C17: setup never fails its assertion, and when it is complete every
\* player has 3 table stacks, each with a bottom and a top card, and 3 cards
\* in the hand; the deck holds 52 - 9 * N cards; the discard pile, the
\* eliminated cards and last_play are empty, win is unset, player_turn is 0.
C17_SetupResult ==
    /\ pc # "aborted"
    /\ pc = "run" =>
           /\ \A p \in 0 .. number_of_players - 1 :
                  /\ Len(player_hands[p].table_stacks) = 3
                  /\ \A i \in DOMAIN player_hands[p].table_stacks :
                         /\ player_hands[p].table_stacks[i].top_card # None
                         /\ player_hands[p].table_stacks[i].bottom_card \in Range(FullDeck)
                  /\ Len(player_hands[p].hand_stack) = 3
           /\ Len(deck) = 52 - 9 * number_of_players
           /\ discard_pile = <<>>
           /\ eliminated_cards = <<>>
           /\ last_play = None
           /\ win = None
           /\ player_turn = 0

\* setup is complete for the greatest number of players.
C17_Witness ==
    /\ pc = "run"
    /\ number_of_players = MAX_PLAYERS
    /\ Len(deck) = 16
    /\ \A p \in 0 .. number_of_players - 1 :
           \A i \in DOMAIN player_hands[p].table_stacks :
               player_hands[p].table_stacks[i].top_card # None

(***************************************************************************)
(* C18.  The selection of the table cards.                                 *)
(***************************************************************************)
\* C18: a SET_TABLE_CARDS reply is accepted exactly when it names 3
\* well-formed cards, each once, all in the player's hand; then the cards
\* have left the hand and are the top cards of the player's table stacks in
\* the order named.  A reply that is not accepted leaves the game as it
\* was, INVALID_ACTION is queued for the player, and the player asked next
\* is the same one.
C18_TableCardSelection ==
    pc = "set_table_cards" =>
        /\ \A p \in 0 .. number_of_players - 1 :
               OnlyInvalidAction(update_queue, p) => table_player = p
        /\ \A response \in TableResponses(player_hands[table_player]) :
               LET selection == handle_table_card_selection(Game, table_player, response)
                   after == selection.self
                   hand == player_hands[table_player]
                   named == NamedCards(response)
                   good == /\ response.action = "SET_TABLE_CARDS"
                           /\ Len(named) = 3
                           /\ Cardinality(Range(named)) = 3
                           /\ Range(named) \subseteq Range(hand.hand_stack)
               IN  /\ selection.valid <=> good
                   /\ selection.valid =>
                          /\ after.player_hands[table_player].hand_stack =
                                 SelectSeq(hand.hand_stack, LAMBDA c : c \notin Range(named))
                          /\ Len(after.player_hands[table_player].table_stacks) = 3
                          /\ \A i \in 1 .. 3 :
                                 after.player_hands[table_player].table_stacks[i] =
                                     [bottom_card |-> hand.table_stacks[i].bottom_card,
                                      top_card |-> Some(named[i])]
                          /\ \A p \in PlayerNumbers(Game) \ {table_player} :
                                 after.player_hands[p] = player_hands[p]
                          /\ after.deck = deck
                   /\ ~selection.valid =>
                          /\ SameGame(after, Game)
                          /\ OnlyInvalidAction(after.update_queue, table_player)

\* The first player's selection has been accepted and the second player's
\* rejected: the second is the one to be asked.
C18_Witness ==
    /\ pc = "set_table_cards"
    /\ table_player = 1
    /\ OnlyInvalidAction(update_queue, 1)
    /\ \A i \in DOMAIN player_hands[0].table_stacks :
           player_hands[0].table_stacks[i].top_card # None
    /\ Len(player_hands[0].hand_stack) = 3
    /\ \A i \in DOMAIN player_hands[1].table_stacks :
           player_hands[1].table_stacks[i].top_card = None
    /\ Len(player_hands[1].hand_stack) = 6

(***************************************************************************)
(* C19.  Every play is of one rank.                                        *)
(***************************************************************************)
\* last_play of a game, when present, and the cards of every update of an
\* accepted play in its queue are not empty and of one value.
EqualRank(self) ==
    /\ self.last_play # None =>
           /\ Len(Get(self.last_play)) > 0
           /\ Cardinality({Get(self.last_play)[i].value :
                              i \in DOMAIN Get(self.last_play)}) = 1
    /\ \A i \in PlayEntries(self.update_queue) :
           /\ self.update_queue[i].update.cards # None
           /\ Len(EntryCards(self.update_queue[i])) > 0
           /\ Cardinality({EntryCards(self.update_queue[i])[j].value :
                              j \in DOMAIN EntryCards(self.update_queue[i])}) = 1

\* C19: in every state, and after every reply the current player may give,
\* last_play when present is a non-empty list of cards of one rank, and so
\* are the cards of every PLAY_FROM_HAND, PLAY_FROM_TABLE and
\* PLAY_FROM_FACEDOWN_SUCCESS update.
C19_EqualRank ==
    /\ EqualRank([Game EXCEPT !.update_queue = update_queue])
    /\ AtTurn => \A response \in Replies : EqualRank(Outcome(response).self)

\* A play of several cards: they are last_play and the cards of the update.
C19_Witness ==
    /\ last_play # None
    /\ Len(Get(last_play)) >= 2
    /\ PlayEntries(update_queue) # {}
    /\ PlayedCards(update_queue) = Get(last_play)

(***************************************************************************)
(* C20.  When last_play is empty.                                          *)
(***************************************************************************)
\* The step picked up the discard pile, by choice or after a failed play.
PickedUp(queue) == "YOU_PICKED_UP_DISCARD_PILE" \in UpdateTypes(queue)

\* C20: last_play is empty before the first turn; a step that changes the
\* game leaves last_play empty exactly when it picks up the discard pile or
\* burns it, and any other accepted play leaves last_play the cards of that
\* play.  So between turns last_play is empty exactly when the discard pile
\* is, and otherwise it is the end of the discard pile.
C20_LastPlayEmpty ==
    /\ pc \in {"constructed", "set_table_cards"} => last_play = None
    /\ pc \in {"run", "done"} =>
           /\ last_play = None <=> discard_pile = <<>>
           /\ last_play # None =>
                  /\ Len(Get(last_play)) <= Len(discard_pile)
                  /\ LastN(discard_pile, Len(Get(last_play))) = Get(last_play)
    /\ AtTurn =>
           \A response \in Replies :
               LET after == Outcome(response).self
               IN  IF Outcome(response).valid
                   THEN /\ after.last_play = None
                               <=> (PickedUp(after.update_queue) \/ Burned(after))
                        /\ after.last_play # None =>
                               /\ PlayEntries(after.update_queue) # {}
                               /\ after.last_play = Some(PlayedCards(after.update_queue))
                   ELSE after.last_play = last_play

\* A 10 has burned the pile: last_play is empty and the player is to play
\* again.
C20_Witness ==
    /\ pc = "run"
    /\ last_play = None
    /\ discard_pile = <<>>
    /\ \E i \in PlayEntries(update_queue) :
           /\ EntryCards(update_queue[i])[1].value = "10"
           /\ player_turn = Get(update_queue[i].update.player_number)
           /\ EntryCards(update_queue[i])[1] \in Range(eliminated_cards)

(***************************************************************************)
(* C21.  DECK_DEPLETED.                                                    *)
(***************************************************************************)
\* The entries of a queue that carry an update of the given type.
EntriesOfType(queue, update_type) ==
    {i \in DOMAIN queue : queue[i].update.update_type = update_type}

\* A queue tells every one of n players once that the deck is depleted.
TellsDepleted(queue, n) ==
    /\ Cardinality(EntriesOfType(queue, "DECK_DEPLETED")) = n
    /\ \A p \in 0 .. n - 1 :
           \E i \in EntriesOfType(queue, "DECK_DEPLETED") : queue[i].recipient = p

\* What a step from a deck `before` to a deck `after` has to tell of the
\* deck: DECK_DEPLETED, once to every player, when the step took the last
\* card of the deck and in no other step; and an empty deck stays empty.
DepletionStep(before, after, queue, n) ==
    /\ before = <<>> => after = <<>>
    /\ IF before # <<>> /\ after = <<>>
       THEN TellsDepleted(queue, n)
       ELSE EntriesOfType(queue, "DECK_DEPLETED") = {}

\* C21: DECK_DEPLETED is emitted exactly once in a game whose deck becomes
\* empty: every step of the engine, and every reply a player may give at a
\* turn, emits it (once to each player) when the step takes the last card
\* of the deck, and never while the deck still holds cards nor when the
\* deck was empty already; an empty deck stays empty.
C21_DeckDepletedOnce ==
    /\ [](AtTurn =>
            \A response \in Replies :
                LET after == Outcome(response).self
                IN  DepletionStep(deck, after.deck, after.update_queue, number_of_players))
    /\ [][DepletionStep(deck, deck', update_queue', number_of_players)]_vars

\* The step that took the last card of the deck has told of it.
C21_Witness ==
    /\ AtTurn
    /\ deck = <<>>
    /\ Emitted("DECK_DEPLETED")
    /\ Emitted("YOU_DREW_CARD")

(***************************************************************************)
(* C22.  The recipients of the play events.                                *)
(***************************************************************************)
PlayEventTypes ==
    {"PLAY_FROM_HAND", "PLAY_FROM_TABLE", "PLAY_FROM_FACEDOWN_SUCCESS",
     "PLAY_FROM_FACEDOWN_FAILURE", "SET_TABLE_CARDS"}

\* Every play event of a queue names its actor and its cards and is in the
\* queue for each of the n players.
PlayEventsToAll(queue, n) ==
    \A i \in DOMAIN queue :
        queue[i].update.update_type \in PlayEventTypes =>
            /\ queue[i].update.player_number # None
            /\ queue[i].update.cards # None
            /\ \A p \in 0 .. n - 1 :
                   \E j \in DOMAIN queue :
                       queue[j].recipient = p /\ queue[j].update = queue[i].update

\* C22: every PLAY_FROM_HAND, PLAY_FROM_TABLE, PLAY_FROM_FACEDOWN_SUCCESS,
\* PLAY_FROM_FACEDOWN_FAILURE and SET_TABLE_CARDS event, of the step that
\* led to a state and of every reply a player may give in it, is addressed
\* with the actor's number and the cards to all the players, the actor
\* included.
C22_PlayEventsToEveryPlayer ==
    /\ PlayEventsToAll(update_queue, number_of_players)
    /\ AtTurn =>
           \A response \in Replies :
               PlayEventsToAll(Outcome(response).self.update_queue, number_of_players)

(***************************************************************************)
(* C23.  Updates before requests.                                          *)
(***************************************************************************)
\* C23: each player is sent the updates queued for them in the order they
\* were queued, and the engine sends a player no request while an update
\* queued for that player has not been sent.
C23_UpdatesBeforeRequests ==
    \A p \in 0 .. number_of_players - 1 :
        /\ messaging.sent[p] \o messaging.update_queue[p] = messaging.queued[p]
        /\ RequestDue(p) => messaging.update_queue[p] = <<>>

\* The order alone: what was sent, followed by what waits, is what was
\* queued.
C23_InOrder ==
    \A p \in 0 .. number_of_players - 1 :
        messaging.sent[p] \o messaging.update_queue[p] = messaging.queued[p]

\* A game is over and its queues were sent.
C23_Sent ==
    pc = "done" /\ \E p \in 0 .. number_of_players - 1 : messaging.sent[p] # <<>>

(***************************************************************************)
(* C24.  Belief conservation.                                              *)
(***************************************************************************)
\* C24: every player's tracker, after each update the engine has queued
\* for that player, counts DECK_LEN cards (the deck length, the discard
\* pile, the eliminated cards, the own hand, face-up cards and table
\* stacks, and each opponent's known hand, unknown hand count, face-up
\* cards and table stacks), and no assertion of update_state has failed.
C24_BeliefConservation ==
    \A p \in 0 .. number_of_players - 1 :
        /\ ~player_states[p].raised
        /\ player_states[p].built
        /\ belief_total_cards(player_states[p]) = DECK_LEN

(***************************************************************************)
(* Games of random players (RandomSpec).                                   *)
(***************************************************************************)
\* The game is back in a state it was in before, with the same player to
\* answer the same request.
Returned == earlier # None /\ pc = "run" /\ Game = earlier

\* The player to move is sent a PLAY request.
PlayRequested == pc = "run" /\ does_hand_have_known_cards(player_hands[player_turn])

C26_AllOrNothing ==
    (AtTurn /\ Len(player_hands[player_turn].hand_stack) = 0) =>
        \A response \in Replies :
            (response.action = "PLAY_KNOWN_CARDS" /\ NamedCards(response) # <<>>) =>
                LET cards == NamedCards(response)
                    removed == remove_cards_from_face_up(Game, player_turn, cards)
                    table_stacks == removed.self.player_hands[player_turn].table_stacks
                IN  IF removed.raised
                    THEN table_stacks = player_hands[player_turn].table_stacks
                    ELSE /\ Range(cards) \subseteq Range(FaceUpCards)
                         /\ table_stacks = TopsTaken(cards)

(***************************************************************************)
(* C27.  The draw after a play.                                            *)
(***************************************************************************)
\* The queue tells of one drawn card: YOU_DREW_CARD with the card to the
\* actor, PLAYER_DREW_CARD naming the actor and no card to each other player.
TellsOfDraw(queue, actor, card, n) ==
    /\ \A i \in DOMAIN queue :
           queue[i].update.update_type \in DrawTypes =>
               IF queue[i].recipient = actor
               THEN /\ queue[i].update.update_type = "YOU_DREW_CARD"
                    /\ queue[i].update.cards = Some(serialize_cards(<<card>>))
               ELSE /\ queue[i].update.update_type = "PLAYER_DREW_CARD"
                    /\ queue[i].update.player_number = Some(actor)
                    /\ queue[i].update.cards = None
    /\ \A p \in 0 .. n - 1 :
           Cardinality({i \in DOMAIN queue : /\ queue[i].recipient = p
                                              /\ queue[i].update.update_type \in DrawTypes}) = 1

\* The reply was accepted as a play of cards on the discard pile.
PlayedOnPile(after) ==
    UpdateTypes(after.update_queue)
        \cap {"PLAY_FROM_HAND", "PLAY_FROM_TABLE", "PLAY_FROM_FACEDOWN_SUCCESS"} # {}

\* C27: after an accepted play that neither wins nor burns the acting
\* player has drawn the top card of a non-empty deck (the deck is one card
\* shorter, the card is in the actor's hand, YOU_DREW_CARD with the card is
\* queued for the actor and PLAYER_DREW_CARD without a card for each other
\* player) and nothing when the deck is empty; whatever else a reply at a
\* turn leads to, the deck stays as it is and no draw is told of.
C27_DrawAfterPlay ==
    AtTurn =>
        \A response \in Replies :
            LET after == Outcome(response).self
                draws == /\ Outcome(response).valid
                         /\ PlayedOnPile(after)
                         /\ after.win = None
                         /\ ~Burned(after)
                         /\ deck # <<>>
            IN  IF draws
                THEN /\ after.deck = Front(deck)
                     /\ Last(deck) \in Range(after.player_hands[player_turn].hand_stack)
                     /\ TellsOfDraw(after.update_queue, player_turn, Last(deck),
                                    number_of_players)
                ELSE /\ after.deck = deck
                     /\ UpdateTypes(after.update_queue) \cap DrawTypes = {}

(***************************************************************************)
(* C28.  The game a player reconstructs (MctsSpec).                        *)
(***************************************************************************)
\* A player has reconstructed the game from a tracker that satisfies the
\* conservation of the belief.
Reconstructed == call # None /\ "created" \in DOMAIN call /\ ~call.player_state.raised

Simulated == call # None /\ "simulated" \in DOMAIN call /\ ~call.player_state.raised

\* C29: simulate returns true when the rollout ended with the deciding
\* player as the winner, and false when another player won or the rollout
\* was cut off.
C29_RolloutResult ==
    Simulated =>
        /\ ~call.simulated.raised
        /\ call.simulated.returned
               = Some(call.simulated.winner = Some(call.player_state.player_number))

(***************************************************************************)
(* C30.  The choice of the search (SearchSpec).                            *)
(***************************************************************************)
\* The search has returned.
Searched == call # None /\ "chosen_play" \in DOMAIN call /\ call.chosen_play # None

\* The places of the options with the highest win rate.
BestOptions ==
    {i \in DOMAIN call.play_options :
        \A j \in DOMAIN call.play_options : call.play_win_pct[j] <= call.play_win_pct[i]}

\* C30: uniform_monte_carlo_tree_search returns an option whose win rate is
\* the highest of all options, and of the options with the highest win rate
\* the one that is first in the list: the first option when every win rate
\* is 0 and when there is one option only.
C30_SearchChoice ==
    Searched =>
        LET first == CHOOSE i \in BestOptions : \A j \in BestOptions : i <= j
        IN  /\ call.chosen_play = Some(call.play_options[first])
            /\ (\A i \in DOMAIN call.play_options : call.play_win_pct[i] = 0)
                   => call.chosen_play = Some(call.play_options[1])
            /\ Len(call.play_options) = 1 => call.chosen_play = Some(call.play_options[1])

\* C30 witness: of three or more options two have the highest win rate, the
\* first option has a lower one that is not 0, and the search has returned.
C30_Witness ==
    /\ Searched
    /\ Len(call.play_options) >= 3
    /\ Cardinality(BestOptions) = 2
    /\ 1 \notin BestOptions
    /\ call.play_win_pct[1] > 0
    /\ call.chosen_play # Some(call.play_options[1])

(***************************************************************************)
(* C31.  The play the greedy policy selects (Spec).                        *)
(***************************************************************************)
\* The play-preference order of the value characters, the lowest first.
PlayPreference == <<"3", "4", "5", "6", "7", "8", "9", "J", "Q", "K", "A", "2", "T">>

\* The place of a play in the play-preference order: that of its first card.
PreferenceOf(play) == CHOOSE i \in DOMAIN PlayPreference : PlayPreference[i] = play[1][2]

\* The plays available to the player who is sent the PLAY request.
AvailableNow ==
    get_available_plays(player_hands[player_turn], last_play, discard_pile)

\* The plays of AvailableNow of the lowest place in the play-preference order.
LowestNow ==
    {play \in AvailableNow :
        \A other \in AvailableNow : PreferenceOf(play) <= PreferenceOf(other)}

\* The greedy reply is a play that greedy_select_play may put first.
GreedyPlaysSelected ==
    /\ GreedyResponse(Game, player_turn).action = "PLAY_KNOWN_CARDS"
    /\ Get(GreedyResponse(Game, player_turn).cards) \in greedy_select_play(AvailableNow)

\* C31 (as stated): with an available play the greedy policy plays an
\* available play of the lowest rank in the play-preference order, and of the
\* available plays of that rank one with the fewest cards.
C31_FewestCards ==
    (PlayRequested /\ AvailableNow # {}) =>
        /\ GreedyPlaysSelected
        /\ \A play \in greedy_select_play(AvailableNow) :
               /\ play \in LowestNow
               /\ \A other \in LowestNow : Len(play) <= Len(other)

\* C31 (amended): with an available play the greedy policy plays an available
\* play of the lowest rank in the play-preference order, and of the available
\* plays of that rank one with the most cards.
C31_MostCards ==
    (PlayRequested /\ AvailableNow # {}) =>
        /\ GreedyPlaysSelected
        /\ \A play \in greedy_select_play(AvailableNow) :
               /\ play \in LowestNow
               /\ \A other \in LowestNow : Len(play) >= Len(other)

\* C31 witness: the player is sent a PLAY request, plays of two ranks are
\* available, those of the lowest rank are of one card and of more, and the
\* greedy reply is of more than one card.
C31_Witness ==
    /\ PlayRequested
    /\ AvailableNow # LowestNow
    /\ \E play, other \in LowestNow : Len(play) = 1 /\ Len(other) > 1
    /\ Len(Get(GreedyResponse(Game, player_turn).cards)) > 1

(***************************************************************************)
(* C32.  The replies of greedy players (ProtocolSpec).                     *)
(***************************************************************************)
\* C32: a greedy player whose tracker has applied every event the engine
\* queued for it answers a PLAY request with an available play of its hand
\* or, when there is none, with a pickup of a discard pile that holds
\* cards: the engine accepts the reply and no INVALID_ACTION follows.
C32_GreedyAccepted ==
    PlayRequested =>
        LET reply == GreedyPlayer_play(player_states[player_turn])
        IN  /\ reply # None
            /\ \/ /\ Get(reply).action = "PLAY_KNOWN_CARDS"
                  /\ Get(Get(reply).cards) \in AvailableNow
               \/ /\ Get(reply).action = "PICK_UP_DISCARD_PILE"
                  /\ AvailableNow = {}
                  /\ discard_pile # <<>>
            /\ Outcome(Get(reply)).valid

(***************************************************************************)
(* C33.  The round trip of the card codes (SerialSpec).                    *)
(***************************************************************************)
\* serialize_card and deserialize_card have been applied to the input.
Deserialized == call # None /\ "returned" \in DOMAIN call /\ call.returned

\* A code of one suit letter followed by one rank character.
WellFormed(code) ==
    /\ Len(code) = 2
    /\ code[1] \in {"D", "C", "H", "S"}
    /\ code[2] \in {"2", "3", "4", "5", "6", "7", "8", "9", "T", "J", "Q", "K", "A"}

\* C33: deserialize_card(serialize_card(card)) is the card, of the same
\* value and suit, for each of the 52 cards, and a code that is not one suit
\* letter of D, C, H, S followed by one rank character of 2-9, T, J, Q, K, A
\* is rejected with CardEncodeDecodeException; a code of that form is not.
C33_RoundTrip ==
    Deserialized =>
        /\ call.card # None =>
               /\ call.result = call.card
               /\ WellFormed(serialize_card(Get(call.card)))
        /\ call.code # None =>
               /\ ~WellFormed(Get(call.code)) => call.result = None
               /\ WellFormed(Get(call.code)) =>
                      /\ call.result # None
                      /\ serialize_card(Get(call.result)) = Get(call.code)

\* C33 witness: the 10 of Hearts has been serialized, to the code HT, and
\* deserialized.
C33_Witness ==
    /\ Deserialized
    /\ call.card = Some(Card("10", "Hearts"))
    /\ serialize_card(Get(call.card)) = <<"H", "T">>
    /\ call.result # None

\* C33 witness of the rejection: a code of three characters that begins
\* with a suit letter and a rank character has been rejected.
C33_Rejected ==
    /\ Deserialized
    /\ call.code = Some(<<"H", "T", "0">>)
    /\ call.result = None

(***************************************************************************)
(* C34.  last_play and the discard pile (Spec).                            *)
(***************************************************************************)
\* last_play is empty exactly when the discard pile is, and otherwise its
\* cards are the last cards of the discard pile.
LastPlayOnPile(self) ==
    /\ self.last_play = None <=> self.discard_pile = <<>>
    /\ self.last_play # None =>
           /\ Len(Get(self.last_play)) <= Len(self.discard_pile)
           /\ Get(self.last_play)
                  = SubSeq(self.discard_pile,
                           Len(self.discard_pile) - Len(Get(self.last_play)) + 1,
                           Len(self.discard_pile))

\* C34: at every turn boundary last_play is empty if and only if the discard
\* pile is empty, and a last_play that is present is made of the last cards
\* of the discard pile, as many as it has; so it is after every reply the
\* player to move may give.
C34_LastPlayOnPile ==
    /\ LastPlayOnPile(Game)
    /\ pc = "run" => \A response \in Replies : LastPlayOnPile(Outcome(response).self)

\* C34 witness: a play of two cards lies on a discard pile that held cards
\* before it.
C34_Witness ==
    /\ pc = "run"
    /\ last_play # None
    /\ Len(Get(last_play)) = 2
    /\ Len(discard_pile) > 2

(***************************************************************************)
(* C35.  The turn loop has no dead end (Spec).                             *)
(***************************************************************************)
\* The selections of face-up cards of one value the player to move owns.
FaceUpSelections ==
    LET face_up == build_face_up_table_stack(player_hands[player_turn].table_stacks)
    IN  {CardsAt(face_up, S) :
            S \in {T \in SUBSET DOMAIN face_up \ {{}} :
                     \A i, j \in T : face_up[i].value = face_up[j].value}}

\* The engine accepts the play of these cards.
Accepts(cards) == Outcome(Response("PLAY_KNOWN_CARDS", Some(serialize_cards(cards)))).valid

\* C35: in every state of the turn loop, where win is unset, the player to
\* move holds a card and the engine accepts an action: the pickup when the
\* discard pile holds cards, every available play from the hand, of which
\* there is one when the discard pile is empty, every selection of the
\* player's face-up cards of one value when the hand is empty, and the
\* face-down play the engine makes itself.
C35_NoDeadEnd ==
    pc = "run" =>
        LET hand == player_hands[player_turn]
        IN  /\ win = None
            /\ count_player_cards(hand) >= 1
            /\ \E response \in Replies : Outcome(response).valid
            /\ (PlayRequested /\ discard_pile # <<>>) =>
                   Outcome(Response("PICK_UP_DISCARD_PILE", None)).valid
            /\ Len(hand.hand_stack) > 0 =>
                   /\ \A play \in AvailableNow :
                          Outcome(Response("PLAY_KNOWN_CARDS", Some(play))).valid
                   /\ discard_pile = <<>> => AvailableNow # {}
            /\ (PlayRequested /\ Len(hand.hand_stack) = 0) =>
                   /\ FaceUpSelections # {}
                   /\ \A cards \in FaceUpSelections : Accepts(cards)
            /\ ~PlayRequested => Outcome(Response("PLAY_FACE_DOWN", None)).valid

\* C35 witness: the player to move has no hand card and face-up cards of
\* which a selection is not an available play, on a discard pile that holds
\* cards; the engine accepts the selection.
C35_Witness ==
    /\ PlayRequested
    /\ Len(player_hands[player_turn].hand_stack) = 0
    /\ discard_pile # <<>>
    /\ \E cards \in FaceUpSelections :
           /\ serialize_cards(SortCards(cards)) \notin AvailableNow
           /\ Accepts(cards)

(***************************************************************************)
(* C36.  The public view of the trackers (ProtocolSpec).                   *)
(***************************************************************************)
\* C36: at every turn boundary the tracker of each player, which has
\* applied in their order the events the engine emitted for the player, has
\* the discard pile, the eliminated cards, the last play and the length of
\* the deck of the engine, after a play that burned the pile too.
C36_PublicView ==
    pc = "run" =>
        \A p \in DOMAIN player_states :
            /\ ~player_states[p].raised
            /\ player_states[p].discard_pile = discard_pile
            /\ player_states[p].eliminated_cards = eliminated_cards
            /\ player_states[p].last_play = last_play
            /\ player_states[p].deck_length = Len(deck)

(***************************************************************************)
(* C37.  The belief of a tracker about its opponents (ProtocolSpec).       *)
(***************************************************************************)
\* What the tracker `self` holds of opponent o is sound: the known hand
\* cards are in the hand the engine has of o, hand_count_unknown is not
\* negative and counts the other cards of that hand, and the face-up cards
\* are not more than the table stacks.
SoundBelief(self, o) ==
    LET opponent == self.opponents[o]
    IN  /\ \A i \in DOMAIN opponent.hand_stack :
               \E j \in DOMAIN player_hands[o].hand_stack :
                   player_hands[o].hand_stack[j] = opponent.hand_stack[i]
        /\ opponent.hand_count_unknown >= 0
        /\ Len(opponent.hand_stack) + opponent.hand_count_unknown
               = Len(player_hands[o].hand_stack)
        /\ Len(opponent.table_stack) <= opponent.table_stacks

\* C37: the tracker of each player, which has applied in their order the
\* events the engine emitted for the player, holds a sound belief about each
\* opponent.
C37_OpponentBelief ==
    \A p \in DOMAIN player_states :
        /\ ~player_states[p].raised
        /\ player_states[p].built
        /\ \A o \in DOMAIN player_states[p].opponents : SoundBelief(player_states[p], o)

(***************************************************************************)
(* C38.  The fields of the events the engine emits (ProtocolSpec).         *)
(***************************************************************************)
\* The fields PlayerState.update_state asserts to be present, or reads, for
\* an update of the type.
RequiredFields(update_type) ==
    CASE update_type = "GAME_INITIATED" -> {"number_of_players"}
      [] update_type \in {"PLAYER_WINS", "PLAYER_DREW_CARD",
                          "PLAYER_PICKED_UP_DISCARD_PILE"} -> {"player_number"}
      [] update_type \in {"YOU_DREW_CARD", "YOU_PICKED_UP_DISCARD_PILE"} -> {"cards"}
      [] update_type \in {"PLAY_FROM_HAND", "PLAY_FROM_TABLE", "PLAY_FROM_FACEDOWN_SUCCESS",
                          "PLAY_FROM_FACEDOWN_FAILURE", "PLAY_FROM_FACEUP_FAILURE",
                          "SET_TABLE_CARDS"} -> {"player_number", "cards"}
      [] OTHER -> {}

\* C38: every event the engine emits carries the fields the tracker requires
\* for its type: number_of_players on GAME_INITIATED, player_number on
\* PLAYER_WINS and on the events about a player, cards on every play, draw
\* to self and pickup to self.
C38_RequiredFields ==
    \A i \in DOMAIN update_queue :
        \A field \in RequiredFields(update_queue[i].update.update_type) :
            update_queue[i].update[field] # None

(***************************************************************************)
(* C39.  What a burn leaves on the discard pile (FaceUpSpec).              *)
(***************************************************************************)
\* The cards of a game that are not on the discard pile: the deck, the
\* eliminated cards, the hands and the table stacks.
OffPile(self) ==
    Range(CardPlaces([self EXCEPT !.discard_pile = <<>>]))

\* The discard pile ends with four cards of one value that is not 2.
FourOnTop(pile) ==
    /\ Len(pile) >= 4
    /\ are_all_cards_same_value(LastN(pile, 4))
    /\ pile[Len(pile)].value # "2"

\* The discard pile holds no 10 and does not end with four cards of one
\* value other than 2.
PileBurnt ==
    /\ \A i \in DOMAIN discard_pile : discard_pile[i].value # "10"
    /\ ~FourOnTop(discard_pile)

\* C39: at every turn boundary the discard pile holds no 10 and does not
\* end with four cards of one value other than 2, and every 10 is in the
\* deck, a hand, a table stack or the eliminated cards.
C39_BurntPile ==
    /\ PileBurnt
    /\ \A card \in Range(Deck) : card.value = "10" => card \in OffPile(Game)

\* Four cards of one value, neither 2 nor 10, have been burnt from the pile.
FourBurnt ==
    \E i \in 1 .. Len(eliminated_cards) - 3 :
        /\ are_all_cards_same_value(SubSeq(eliminated_cards, i, i + 3))
        /\ eliminated_cards[i].value \notin {"2", "10"}

\* Both burns have happened: a 10 has been played and eliminated, four cards
\* of another value have been burnt, and the play goes on over a pile of
\* other cards.
BothBurns ==
    /\ pc = "run"
    /\ \E i \in DOMAIN eliminated_cards : eliminated_cards[i].value = "10"
    /\ FourBurnt
    /\ Len(discard_pile) > 0

====
